---- MODULE Spec2Model ----
(***************************************************************************)
(* Model of the VRAM decode / precision-normalize / diff-classify /        *)
(* region-aggregate pipeline of the superpsx analysis scripts.             *)
(*                                                                         *)
(* Each script is a batch program; one action models one script step.      *)
(* The module holds several specifications, one per pipeline stage:        *)
(*   SpecLoad   format disambiguation of a dump by its byte length         *)
(*   SpecCodec  decoding of a 16-bit word of a dump by every decoder       *)
(*   SpecDiff   classification of one (expected, actual) pixel pair        *)
(*   SpecImage  whole-image comparison and the match percentage            *)
(*   SpecRun    one invocation of a comparison script, step by step         *)
(*   SpecShape  the shape heuristic of analyze.py                           *)
(*   SpecAmp    one channel of the amplified diff image                     *)
(*   SpecRegion per-rectangle and per-grid-cell summaries                   *)
(*   SpecRunner one test of a test runner: best dump and summary line       *)
(*   SpecEmu    a test runner and the emulator instances it starts and kills *)
(*   SpecSections the per-section breakdown of analyze_line.py              *)
(***************************************************************************)
EXTENDS Integers, Sequences, FiniteSets, TLC

VARIABLES
    data_len,   \* SpecLoad: byte length of the dump file read by a loader
    load,       \* SpecLoad: outcome of the loader that ran
    word,       \* SpecCodec: the 16-bit probe word stored in the dump
    woff,       \* SpecCodec: byte offset of the probe word in the dump
    dec,        \* SpecCodec: outcome of the decoder that ran
    refpx,      \* SpecDiff: 8-bit reference pixel
    gotpx,      \* SpecDiff: 8-bit dump pixel
    cls,        \* SpecDiff: outcome of the classifier that ran
    ref,        \* SpecImage: reference image
    got,        \* SpecImage: decoded dump image
    report,     \* SpecImage: outcome of the comparison that ran
    fs,         \* SpecRun: the files a script invocation finds
    run,        \* SpecRun: the invocation: position, files written, messages
    scene,      \* SpecShape: the image given to the shape heuristic
    shape,      \* SpecShape: what the shape heuristic computed and printed
    chan,       \* SpecAmp: one 8-bit channel of the dump and of the reference
    amp,        \* SpecAmp: the channel of the amplified diff image
    canvas,     \* SpecRegion: the reference / dump image pair a region summary reads
    regions,    \* SpecRegion: the per-rectangle summary a script printed
    suite,      \* SpecRunner: the dumps one test of a runner left behind
    result,     \* SpecRunner: what the runner recorded and printed for the test
    script,     \* SpecEmu: the test runner: which one, its test, its position, the dumps it collected
    emu         \* SpecEmu: the emulator instances and the vram_*.bin files on disk

vars == <<data_len, load, word, woff, dec, refpx, gotpx, cls, ref, got, report,
          fs, run, scene, shape,
          chan, amp,
          canvas, regions,
          suite, result,
          script, emu>>

loadVars  == <<data_len, load>>
codecVars == <<word, woff, dec>>
diffVars  == <<refpx, gotpx, cls>>
imageVars == <<ref, got, report>>
runVars   == <<fs, run>>
shapeVars == <<scene, shape>>
ampVars   == <<chan, amp>>
regionVars == <<canvas, regions>>
runnerVars == <<suite, result>>
emuVars == <<script, emu>>

\* the variables of the other specifications, left alone by one's actions
notLoadVars  == <<codecVars, diffVars, imageVars, runVars, shapeVars, ampVars, regionVars, runnerVars, emuVars>>
notCodecVars == <<loadVars, diffVars, imageVars, runVars, shapeVars, ampVars, regionVars, runnerVars, emuVars>>
notDiffVars  == <<loadVars, codecVars, imageVars, runVars, shapeVars, ampVars, regionVars, runnerVars, emuVars>>
notImageVars == <<loadVars, codecVars, diffVars, runVars, shapeVars, ampVars, regionVars, runnerVars, emuVars>>
notRunVars   == <<loadVars, codecVars, diffVars, imageVars, shapeVars, ampVars, regionVars, runnerVars, emuVars>>
notShapeVars == <<loadVars, codecVars, diffVars, imageVars, runVars, ampVars, regionVars, runnerVars, emuVars>>
notAmpVars   == <<loadVars, codecVars, diffVars, imageVars, runVars, shapeVars, regionVars, runnerVars, emuVars>>
notRegionVars == <<loadVars, codecVars, diffVars, imageVars, runVars, shapeVars, ampVars, runnerVars, emuVars>>
notRunnerVars == <<loadVars, codecVars, diffVars, imageVars, runVars, shapeVars, ampVars, regionVars, emuVars>>
notEmuVars == <<loadVars, codecVars, diffVars, imageVars, runVars, shapeVars, ampVars, regionVars, runnerVars>>

(***************************************************************************)
(* Integer bit operations, computed bit by bit as Python / numpy do.       *)
(***************************************************************************)
RECURSIVE BitAnd(_, _)
BitAnd(a, b) ==
    IF a = 0 \/ b = 0 THEN 0
    ELSE (IF a % 2 = 1 /\ b % 2 = 1 THEN 1 ELSE 0) + 2 * BitAnd(a \div 2, b \div 2)

RECURSIVE BitOr(_, _)
BitOr(a, b) ==
    IF a = 0 THEN b
    ELSE IF b = 0 THEN a
    ELSE (IF a % 2 = 1 \/ b % 2 = 1 THEN 1 ELSE 0) + 2 * BitOr(a \div 2, b \div 2)

Shl(a, n) == a * (2 ^ n)

Shr(a, n) == a \div (2 ^ n)

\* numpy .astype(np.uint8): keep the low 8 bits
AsUint8(v) == v % 256

\* numpy .astype(np.uint16): keep the low 16 bits
AsUint16(v) == v % 65536

(***************************************************************************)
(* The fixed canvas of a VRAM dump.                                        *)
(***************************************************************************)
VRAM_W == 1024

VRAM_H == 512

expected_16 == VRAM_W * VRAM_H * 2

expected_32 == VRAM_W * VRAM_H * 4

NoLoad == [by |-> "none", path |-> "none", img |-> FALSE, exited |-> FALSE,
           printed |-> {}]

IdleLoad == data_len = 0 /\ load = NoLoad

IdleCodec == word = 0 /\ woff = 0 /\ dec = [by |-> "none"]

IdleDiff == refpx = <<0, 0, 0>> /\ gotpx = <<0, 0, 0>> /\ cls = [by |-> "none"]

IdleImage == ref = <<>> /\ got = <<>> /\ report = [by |-> "none"]

IdleRun == fs = <<>> /\ run = [by |-> "none"]

IdleShape == scene = <<>> /\ shape = [by |-> "none"]

IdleAmp == chan = <<0, 0>> /\ amp = [by |-> "none"]

IdleRegion == canvas = <<>> /\ regions = [by |-> "none"]

IdleRunner == suite = <<>> /\ result = [by |-> "none"]

IdleEmu == script = <<>> /\ emu = <<>>

(***************************************************************************)
(* SpecLoad: format disambiguation by byte length.                         *)
(***************************************************************************)
\* how far around 0 and around each supported size the dump lengths range
LenSlack == 5

DumpLengths ==
    (0 .. LenSlack)
    \cup ((expected_16 - LenSlack) .. (expected_16 + LenSlack))
    \cup ((expected_32 - LenSlack) .. (expected_32 + LenSlack))

\* compare_vram.load_vram_bin: the decode path chosen for a dump of n bytes
load_vram_bin_swapped(n) ==
    IF n = expected_16 * 4 THEN "rgba32"
    ELSE IF n = expected_16 THEN "ct16s"
    ELSE "none"

load_vram_bin(n) ==
    IF n = expected_32 THEN "rgba32"
    ELSE IF n = expected_16 THEN "ct16s"
    ELSE "none"

\* compare_vram.load_vram_bin as called by main(): prints, returns an image or None
LoadVramBin ==
    /\ load.by = "none"
    /\ LET path == load_vram_bin(data_len) IN
       load' = [by |-> "load_vram_bin",
                path |-> path,
                img |-> path # "none",
                exited |-> FALSE,
                printed |->
                    {<<"File size", data_len>>}
                    \cup (IF path = "rgba32" THEN {<<"Detected 32-bit RGBA dump (legacy)">>}
                          ELSE IF path = "ct16s" THEN {<<"Detected 16-bit CT16S dump">>}
                          ELSE {<<"WARNING: unexpected file size", expected_16, expected_32>>})]
    /\ UNCHANGED <<data_len, notLoadVars>>

\* tools/check_vram_tex.py, module level: bpp chosen from the size, or exit(1)
check_vram_tex_bpp(n) ==
    IF n = VRAM_W * VRAM_H * 4 THEN 4
    ELSE IF n = VRAM_W * VRAM_H * 2 THEN 2
    ELSE 0

CheckVramTex ==
    /\ load.by = "none"
    /\ LET bpp == check_vram_tex_bpp(data_len) IN
       load' = [by |-> "check_vram_tex",
                path |-> (IF bpp = 4 THEN "rgba32" ELSE IF bpp = 2 THEN "ct16s" ELSE "none"),
                img |-> bpp # 0,
                exited |-> bpp = 0,
                printed |->
                    {<<"Size", data_len>>}
                    \cup (IF bpp = 4 THEN {<<"32-bit VRAM dump">>}
                          ELSE IF bpp = 2 THEN {<<"16-bit VRAM dump">>}
                          ELSE {<<"Unexpected size", data_len,
                                  VRAM_W * VRAM_H * 2, VRAM_W * VRAM_H * 4>>})]
    /\ UNCHANGED <<data_len, notLoadVars>>

\* tools/run_16bpp_tests.load_vram_dump: the 16-bit-only loader of the runner
load_vram_dump_ok(n) == ~(n # VRAM_W * VRAM_H * 2)

LoadVramDump ==
    /\ load.by = "none"
    /\ load' = [by |-> "load_vram_dump",
                path |-> (IF load_vram_dump_ok(data_len) THEN "ct16s" ELSE "none"),
                img |-> load_vram_dump_ok(data_len),
                exited |-> FALSE,
                printed |-> {}]
    /\ UNCHANGED <<data_len, notLoadVars>>

\* tools/vram_viewer.main with the default --width 1024 --height 512: one
\* pixel per 2 bytes of the first `expected` bytes, transparent black padding
\* up to width*height pixels, then the PNG is saved
VramViewer ==
    /\ load.by = "none"
    /\ LET expected == VRAM_W * VRAM_H * 2
           used == IF data_len < expected THEN data_len ELSE expected
           pixels == (used + 1) \div 2
           total == VRAM_W * VRAM_H
       IN load' = [by |-> "vram_viewer",
                   path |-> "ct16s",
                   img |-> TRUE,
                   exited |-> FALSE,
                   pad |-> IF pixels < total THEN total - pixels ELSE 0,
                   ignored |-> data_len - used,
                   printed |->
                       (IF data_len < expected
                        THEN {<<"WARNING: input size smaller than expected",
                                data_len, expected>>}
                        ELSE {})
                       \cup (IF data_len > expected
                             THEN {<<"NOTE: input size larger than expected",
                                     data_len, expected>>}
                             ELSE {})
                       \cup {<<"Wrote", VRAM_W, VRAM_H>>}]
    /\ UNCHANGED <<data_len, notLoadVars>>

\* analyze.analyze_image on a .bin path: Image.frombytes('RGBA', (1024, 512),
\* data) raises on too few bytes ("Failed to open image", exit 1); whether
\* surplus bytes are rejected or dropped is the imaging library's choice
AnalyzeImageBin ==
    /\ load.by = "none"
    /\ \E accepted \in BOOLEAN :
          /\ (data_len < expected_32) => ~accepted
          /\ (data_len = expected_32) => accepted
          /\ load' = [by |-> "analyze_image",
                      path |-> IF accepted THEN "rgba32" ELSE "none",
                      img |-> accepted,
                      exited |-> ~accepted,
                      printed |-> IF accepted THEN {<<"converted dump to">>}
                                  ELSE {<<"Failed to open image">>}]
    /\ UNCHANGED <<data_len, notLoadVars>>

InitLoad ==
    /\ data_len \in DumpLengths
    /\ load = NoLoad
    /\ IdleCodec /\ IdleDiff /\ IdleImage /\ IdleRun /\ IdleShape /\ IdleAmp /\ IdleRegion /\ IdleRunner /\ IdleEmu

NextLoad ==
    \/ LoadVramBin
    \/ CheckVramTex
    \/ LoadVramDump
    \/ VramViewer
    \/ AnalyzeImageBin

SpecLoad == InitLoad /\ [][NextLoad]_vars

\* the loaders that choose the format from the byte length
AutoDetecting == {"load_vram_bin", "check_vram_tex"}

ScanCoords == {<<0, 0>>, <<1, 0>>, <<0, 1>>, <<VRAM_W - 1, VRAM_H - 1>>}

\* the byte offsets at which the probe word may sit
ProbeOffsets == {0, 2, 2 * VRAM_W, expected_16 - 2}

Words == 0 .. 65535

\* the byte of the dump file at offset off
ByteAt(off) ==
    IF off = woff THEN word % 256
    ELSE IF off = woff + 1 THEN word \div 256
    ELSE 0

\* struct.unpack('<H', data[off:off+2])[0]
UnpackLE(off) == ByteAt(off) + 256 * ByteAt(off + 1)

\* int.from_bytes(data[i:i+2], order)
from_bytes(i, order) ==
    IF order = "little" THEN ByteAt(i) + 256 * ByteAt(i + 1)
    ELSE 256 * ByteAt(i) + ByteAt(i + 1)

\* np.frombuffer(data, dtype=np.uint16).reshape((512, 1024))[y, x]
\* (C order; uint16 in the host's byte order, little-endian on the hosts used)
frombuffer_reshape(x, y) == UnpackLE(2 * (y * VRAM_W + x))

\* compare_vram.load_vram_bin, 16-bit branch: one pixel of the RGB image
load_vram_bin_rgb_mask4(p) ==
    << AsUint8(Shl(BitAnd(p, 15), 3)),
       AsUint8(Shl(BitAnd(Shr(p, 5), 15), 3)),
       AsUint8(Shl(BitAnd(Shr(p, 10), 15), 3)) >>

load_vram_bin_rgb(p) ==
    << AsUint8(Shl(BitAnd(p, 31), 3)),
       AsUint8(Shl(BitAnd(Shr(p, 5), 31), 3)),
       AsUint8(Shl(BitAnd(Shr(p, 10), 31), 3)) >>

DecodeLoadVramBin ==
    /\ dec.by = "none"
    /\ dec' = [by |-> "load_vram_bin", norm |-> FALSE, opts |-> <<>>,
               img |-> [c \in ScanCoords |->
                          load_vram_bin_rgb(frombuffer_reshape(c[1], c[2]))]]
    /\ UNCHANGED <<word, woff, notCodecVars>>

\* load_vram_dump with each channel expanded by bit replication
load_vram_dump_rgb_replicating(p) ==
    << AsUint8(BitOr(Shl(BitAnd(p, 31), 3), Shr(BitAnd(p, 31), 2))),
       AsUint8(BitOr(Shl(BitAnd(Shr(p, 5), 31), 3), Shr(BitAnd(Shr(p, 5), 31), 2))),
       AsUint8(BitOr(Shl(BitAnd(Shr(p, 10), 31), 3), Shr(BitAnd(Shr(p, 10), 31), 2))) >>

\* tools/run_16bpp_tests.load_vram_dump: one pixel of the (512,1024,3) array
load_vram_dump_rgb(p) ==
    << AsUint8(Shl(BitAnd(p, 31), 3)),
       AsUint8(Shl(BitAnd(Shr(p, 5), 31), 3)),
       AsUint8(Shl(BitAnd(Shr(p, 10), 31), 3)) >>

DecodeLoadVramDump ==
    /\ dec.by = "none"
    /\ dec' = [by |-> "load_vram_dump", norm |-> FALSE, opts |-> <<>>,
               img |-> [c \in ScanCoords |->
                          load_vram_dump_rgb(frombuffer_reshape(c[1], c[2]))]]
    /\ UNCHANGED <<word, woff, notCodecVars>>

\* tools/check_wrap.read_px(x, y)
read_px_off(x, y) == (y * 1024 + x) * 2

read_px(x, y) ==
    LET px == UnpackLE(read_px_off(x, y)) IN
    << Shl(BitAnd(px, 31), 3),
       Shl(BitAnd(Shr(px, 5), 31), 3),
       Shl(BitAnd(Shr(px, 10), 31), 3) >>

DecodeReadPx ==
    /\ dec.by = "none"
    /\ dec' = [by |-> "read_px", norm |-> FALSE, opts |-> <<>>,
               img |-> [c \in ScanCoords |-> read_px(c[1], c[2])]]
    /\ UNCHANGED <<word, woff, notCodecVars>>

\* tools/compare_detailed.py, the decode loop: got[y, x]
compare_detailed_got(x, y) ==
    LET off == (y * VRAM_W + x) * 2
        val == UnpackLE(off)
    IN << AsUint8(Shl(BitAnd(val, 31), 3)),
          AsUint8(Shl(BitAnd(Shr(val, 5), 31), 3)),
          AsUint8(Shl(BitAnd(Shr(val, 10), 31), 3)) >>

DecodeCompareDetailed ==
    /\ dec.by = "none"
    /\ dec' = [by |-> "compare_detailed", norm |-> FALSE, opts |-> <<>>,
               img |-> [c \in ScanCoords |-> compare_detailed_got(c[1], c[2])]]
    /\ UNCHANGED <<word, woff, notCodecVars>>

\* tools/check_vram_tex.get_pixel(x, y), bpp == 2 branch
get_pixel(x, y) ==
    LET off == (y * VRAM_W + x) * 2
        val == UnpackLE(off)
    IN << Shl(BitAnd(val, 31), 3),
          Shl(BitAnd(Shr(val, 5), 31), 3),
          Shl(BitAnd(Shr(val, 10), 31), 3),
          BitAnd(Shr(val, 15), 1) >>

DecodeGetPixel ==
    /\ dec.by = "none"
    /\ dec' = [by |-> "get_pixel", norm |-> FALSE, opts |-> <<>>,
               img |-> [c \in ScanCoords |-> get_pixel(c[1], c[2])]]
    /\ UNCHANGED <<word, woff, notCodecVars>>

\* tools/vram_viewer.expand5
expand5(v) == BitOr(Shl(v, 3), Shr(v, 2))

\* decode_word without the 0x7FFF mask, the high channel six bits wide
decode_word_unmasked(w, fmt, alpha) ==
    LET a   == IF alpha THEN (IF BitAnd(w, 32768) # 0 THEN 255 ELSE 0) ELSE 255
        pix == w
        r == IF fmt = "bgr" THEN BitAnd(pix, 31) ELSE BitAnd(Shr(pix, 10), 63)
        g == BitAnd(Shr(pix, 5), 31)
        b == IF fmt = "bgr" THEN BitAnd(Shr(pix, 10), 63) ELSE BitAnd(pix, 31)
    IN << expand5(r), expand5(g), expand5(b), a >>

\* tools/vram_viewer.decode_word(w, fmt, alpha)
decode_word(w, fmt, alpha) ==
    LET a   == IF alpha THEN (IF BitAnd(w, 32768) # 0 THEN 255 ELSE 0) ELSE 255
        pix == BitAnd(w, 32767)
        r == IF fmt = "bgr" THEN BitAnd(pix, 31) ELSE BitAnd(Shr(pix, 10), 31)
        g == BitAnd(Shr(pix, 5), 31)
        b == IF fmt = "bgr" THEN BitAnd(Shr(pix, 10), 31) ELSE BitAnd(pix, 31)
    IN << expand5(r), expand5(g), expand5(b), a >>

\* viewer_pixel with the channel-order option exchanging G and B
viewer_pixel_swap_gb(x, y, fmt, alpha, endian) ==
    LET order == IF endian = "le" THEN "little" ELSE "big"
        i == 2 * (y * VRAM_W + x)
        p == decode_word(from_bytes(i, order), "bgr", alpha)
    IN IF fmt = "bgr" THEN p ELSE <<p[1], p[3], p[2], p[4]>>

\* tools/vram_viewer.main: the pixel that putdata places at (x, y) of the
\* width x height image (default 1024 x 512; the dump has the expected size)
viewer_pixel(x, y, fmt, alpha, endian) ==
    LET order == IF endian = "le" THEN "little" ELSE "big"
        i == 2 * (y * VRAM_W + x)
    IN decode_word(from_bytes(i, order), fmt, alpha)

DecodeVramViewer ==
    /\ dec.by = "none"
    /\ \E fmt \in {"bgr", "rgb"}, alpha \in BOOLEAN, endian \in {"le", "be"} :
          dec' = [by |-> "vram_viewer", norm |-> FALSE, opts |-> <<fmt, alpha, endian>>,
                  img |-> [c \in ScanCoords |->
                             viewer_pixel(c[1], c[2], fmt, alpha, endian)]]
    /\ UNCHANGED <<word, woff, notCodecVars>>

\* tools/run_16bpp_tests.to_5bit, on one channel value
to_5bit_shift2(v) == AsUint8(Shr(AsUint16(v), 2))

to_5bit(v) == AsUint8(Shr(AsUint16(v), 3))

\* the 5-bit projection of a decoded image (colour channels only)
To5bit ==
    /\ dec.by # "none"
    /\ ~dec.norm
    /\ dec' = [dec EXCEPT !.norm = TRUE,
                          !.img = [c \in ScanCoords |->
                                     [k \in 1 .. 3 |-> to_5bit(dec.img[c][k])]]]
    /\ UNCHANGED <<word, woff, notCodecVars>>

\* the words placed at the other probe offsets: each channel alone, the flag
\* bit alone, all bits set
ProbeWords == {0, 31, 992, 31744, 32768, 65535}

\* every 16-bit word at the first pixel; the probe words at every probe offset
InitCodec ==
    /\ \/ word \in Words /\ woff = 0
       \/ word \in ProbeWords /\ woff \in ProbeOffsets
    /\ dec = [by |-> "none"]
    /\ IdleLoad /\ IdleDiff /\ IdleImage /\ IdleRun /\ IdleShape /\ IdleAmp /\ IdleRegion /\ IdleRunner /\ IdleEmu

NextCodec ==
    \/ DecodeLoadVramBin
    \/ DecodeLoadVramDump
    \/ DecodeReadPx
    \/ DecodeCompareDetailed
    \/ DecodeGetPixel
    \/ DecodeVramViewer
    \/ To5bit

SpecCodec == InitCodec /\ [][NextCodec]_vars

\* the word a decoder should find at pixel (x, y): the probe word at its own
\* pixel, zero elsewhere
WordOfPixel(c) == IF 2 * (c[2] * 1024 + c[1]) = woff THEN word ELSE 0

\* the decoders of the comparison scripts (16-bit little-endian dumps)
ShiftDecoders ==
    {"load_vram_bin", "load_vram_dump", "read_px", "compare_detailed", "get_pixel"}

\* C2: for every 16-bit little-endian word w of the dump, the pixel decoded
\* at (x, y) comes from the word at index y*1024 + x and is
\* R = (w & 0x1F) << 3, G = ((w >> 5) & 0x1F) << 3, B = ((w >> 10) & 0x1F) << 3.
Decode555 ==
    (dec.by \in ShiftDecoders /\ ~dec.norm) =>
        \A c \in ScanCoords :
            LET w == WordOfPixel(c) IN
            /\ dec.img[c][1] = (w % 32) * 8
            /\ dec.img[c][2] = ((w \div 32) % 32) * 8
            /\ dec.img[c][3] = ((w \div 1024) % 32) * 8

\* C2 witness: a word with every bit set, stored at pixel (0, 1), decoded
Decode555Witness ==
    /\ dec.by = "load_vram_bin" /\ ~dec.norm
    /\ word = 65535 /\ woff = 2 * VRAM_W
    /\ dec.img[<<0, 1>>] = <<248, 248, 248>>
    /\ dec.img[<<1, 0>>] = <<0, 0, 0>>

\* C3: every decoder expands a 5-bit channel c to exactly c << 3, a multiple
\* of 8 in 0..248, never by bit replication.
ExpandIsShift ==
    (dec.by # "none" /\ ~dec.norm) =>
        \A c \in ScanCoords : \A k \in 1 .. 3 :
            \E c5 \in 0 .. 31 : dec.img[c][k] = c5 * 8

\* (R5,G5,B5) and the flag bit packed into a 16-bit word
Pack555(r, g, b, m) == r + 32 * g + 1024 * b + 32768 * m

\* the pixel at which the probe word is stored
ProbePixel == CHOOSE c \in ScanCoords : 2 * (c[2] * VRAM_W + c[1]) = woff

\* C4: packing (R5,G5,B5) and either flag bit into a word, decoding it and
\* normalizing to 5 bits gives back exactly (R5,G5,B5), for every decoder in
\* its default little-endian, R-in-low-bits layout.
RoundTrip ==
    (/\ dec.by # "none"
     /\ dec.norm
     /\ dec.by = "vram_viewer" => (dec.opts[1] = "bgr" /\ dec.opts[3] = "le")) =>
        \E r \in 0 .. 31 : \E m \in 0 .. 1 :
            LET g == (word \div 32) % 32
                b == (word \div 1024) % 32
            IN /\ word = Pack555(r, g, b, m)
               /\ dec.img[ProbePixel][1] = r
               /\ dec.img[ProbePixel][2] = g
               /\ dec.img[ProbePixel][3] = b

\* C4 witness: (31,17,5) with the flag bit set went through the runner's
\* decoder and its 5-bit projection
RoundTripWitness ==
    /\ dec.by = "load_vram_dump" /\ dec.norm
    /\ word = Pack555(31, 17, 5, 1)
    /\ dec.img[<<0, 0>>][2] = 17

\* the 16-bit word a decoder forms from the two bytes of pixel c: the
\* viewer in big-endian order takes the first byte as the high byte
WordAsRead(c) ==
    LET w == WordOfPixel(c) IN
    IF dec.by = "vram_viewer" /\ dec.opts[3] = "be"
    THEN 256 * (w % 256) + w \div 256
    ELSE w

\* the 8-bit colour each decoder gives to the 15 low bits v of a word
ColourOfLowBits(v) ==
    LET lo  == v % 32
        mid == (v \div 32) % 32
        hi  == v \div 1024
    IN IF dec.by = "vram_viewer"
       THEN IF dec.opts[1] = "bgr"
            THEN <<lo * 8 + lo \div 4, mid * 8 + mid \div 4, hi * 8 + hi \div 4>>
            ELSE <<hi * 8 + hi \div 4, mid * 8 + mid \div 4, lo * 8 + lo \div 4>>
       ELSE <<lo * 8, mid * 8, hi * 8>>

\* C23: bit 15 of a 16-bit word never influences the decoded colour: in
\* every decoder the (R,G,B) of a word is the colour of its 15 low bits, so
\* two words differing only in bit 15 decode alike; with the alpha option
\* the alpha output is opaque exactly when bit 15 is 1, without it the alpha
\* output is the same constant for both values of bit 15.
FlagBitIgnored ==
    (dec.by # "none" /\ ~dec.norm) =>
        \A c \in ScanCoords :
            LET w == WordAsRead(c)
                colour == ColourOfLowBits(w % 32768)
            IN /\ \A k \in 1 .. 3 : dec.img[c][k] = colour[k]
               /\ (dec.by = "vram_viewer" /\ dec.opts[2]) =>
                     ((dec.img[c][4] = 255) <=> (w >= 32768))
               /\ (dec.by = "vram_viewer" /\ ~dec.opts[2]) => (dec.img[c][4] = 255)

\* C23 witness: a word with bit 15 and every blue bit set, decoded with the
\* alpha option: the colour of 0x7C00, opaque
FlagBitIgnoredWitness ==
    /\ dec.by = "vram_viewer" /\ ~dec.norm
    /\ dec.opts = <<"bgr", TRUE, "le">>
    /\ word = 32768 + 31744 /\ woff = 0
    /\ dec.img[<<0, 0>>] = <<0, 0, 255, 255>>

\* the pairwise byte-swapped buffer, read as a little-endian word at pixel c
SwappedLE(c) ==
    LET w == WordOfPixel(c) IN 256 * (w % 256) + w \div 256

\* the viewer's output for a little-endian word w in the default channel
\* order: R from bits 4:0, G from bits 9:5, B from bits 14:10
ViewerDefault(w, alpha) ==
    LET R == w % 32
        G == (w \div 32) % 32
        B == (w \div 1024) % 32
    IN <<R * 8 + R \div 4, G * 8 + G \div 4, B * 8 + B \div 4,
         IF alpha /\ w < 32768 THEN 0 ELSE 255>>

\* C24: byte order and channel order are independent options: decoding as
\* big-endian equals decoding the byte-swapped buffer as little-endian, the
\* channel-order option exchanges exactly R and B and leaves G and alpha,
\* and in the default order R comes from bits 4:0 and B from bits 14:10.
IndependentOptions ==
    (dec.by = "vram_viewer" /\ ~dec.norm) =>
        \A c \in ScanCoords :
            LET fmt == dec.opts[1]
                alpha == dec.opts[2]
                endian == dec.opts[3]
                le == ViewerDefault(IF endian = "be" THEN SwappedLE(c)
                                    ELSE WordOfPixel(c), alpha)
            IN dec.img[c] = IF fmt = "bgr" THEN le
                            ELSE <<le[3], le[2], le[1], le[4]>>

\* C24 witness: the bytes 7C 1F decoded big-endian in 'rgb' order: the word
\* 0x7C1F with its R and B exchanged, G empty
IndependentOptionsWitness ==
    /\ dec.by = "vram_viewer" /\ ~dec.norm
    /\ dec.opts = <<"rgb", FALSE, "be">>
    /\ word = 256 * 31 + 124 /\ woff = 0
    /\ dec.img[<<0, 0>>] = <<255, 0, 255, 255>>

\* the decoders that expand a channel by a left shift of 3
LeftShiftDecoders == {"load_vram_bin", "load_vram_dump"}

\* C25 as stated: the 8-bit value of a left-shifted 5-bit channel has its
\* top 3 bits equal to zero.
TopThreeBitsZero ==
    (dec.by \in LeftShiftDecoders /\ ~dec.norm) =>
        \A c \in ScanCoords : \A k \in 1 .. 3 : dec.img[c][k] \div 32 = 0

\* C25 amended: the 8-bit value of a left-shifted 5-bit channel has its low
\* 3 bits equal to zero and the channel value in its top 5 bits.
LowThreeBitsZero ==
    (dec.by \in LeftShiftDecoders /\ ~dec.norm) =>
        \A c \in ScanCoords : \A k \in 1 .. 3 :
            /\ dec.img[c][k] % 8 = 0
            /\ dec.img[c][k] \div 8 = (WordOfPixel(c) \div (32 ^ (k - 1))) % 32

\* C25 witness: the channel value 31 expanded to 248 by the runner's loader
LowThreeBitsZeroWitness ==
    /\ dec.by = "load_vram_dump" /\ ~dec.norm
    /\ word = 31 /\ woff = 0
    /\ dec.img[<<0, 0>>] = <<248, 0, 0>>

(***************************************************************************)
(* SpecDiff: comparison and classification of one pixel pair.              *)
(*                                                                         *)
(* refpx is a pixel of the reference image (any 8-bit value), gotpx the    *)
(* pixel of the decoded dump at the same coordinate (channels c << 3).     *)
(* Every comparing script is one action; cls is what it computes for the   *)
(* pixel: diff (counted as differing), cats (the categories whose mask or  *)
(* branch holds) and deltas (the per-channel deltas it records).           *)
(***************************************************************************)
\* the largest of the low 5-bit channel levels the pixels are drawn from
ChanLow == 1

\* 5-bit channel levels: the low ones and full intensity
Levels5 == (0 .. ChanLow) \cup {31}

\* channels of a decoded dump pixel: level << 3
GotChannels == {Shl(l, 3) : l \in Levels5}

\* channels of a reference pixel: every level with low bits 000 and 111
RefChannels == {Shl(l, 3) : l \in Levels5} \cup {Shl(l, 3) + 7 : l \in Levels5}

\* numpy: arr >> 3 on a uint8 RGB pixel
Px5_unshifted(px) == [k \in 1 .. 3 |-> px[k]]

Px5(px) == [k \in 1 .. 3 |-> Shr(px[k], 3)]

AnyNe(a, b) == \E k \in 1 .. 3 : a[k] # b[k]

AnyNonZero(a) == \E k \in 1 .. 3 : a[k] # 0

AllZero(a) == \A k \in 1 .. 3 : a[k] = 0

Abs(v) == IF v < 0 THEN -v ELSE v

\* got.astype(int) - ref.astype(int)
Delta(g, r) == [k \in 1 .. 3 |-> g[k] - r[k]]

\* the categories whose mask holds for the pixel
CatsOf(match, missing, extra, color) ==
    (IF match THEN {"Match"} ELSE {})
    \cup (IF missing THEN {"Missing"} ELSE {})
    \cup (IF extra THEN {"Extra"} ELSE {})
    \cup (IF color THEN {"ColorDivergent"} ELSE {})

\* tools/analyze_diff.py: diff, ref_nonblack, got_nonblack, missing, extra, color_diff
analyze_diff_cats_loose(r, g) ==
    LET ref5 == Px5(r)
        got5 == Px5(g)
        diff == AnyNe(ref5, got5)
        ref_nonblack == AnyNonZero(ref5)
        got_nonblack == AnyNonZero(got5)
    IN CatsOf(~diff,
              diff /\ ref_nonblack /\ ~got_nonblack,
              diff /\ ~ref_nonblack /\ got_nonblack,
              diff /\ ref_nonblack)

analyze_diff_cats(r, g) ==
    LET ref5 == Px5(r)
        got5 == Px5(g)
        diff == AnyNe(ref5, got5)
        ref_nonblack == AnyNonZero(ref5)
        got_nonblack == AnyNonZero(got5)
    IN CatsOf(~diff,
              diff /\ ref_nonblack /\ ~got_nonblack,
              diff /\ ~ref_nonblack /\ got_nonblack,
              diff /\ ref_nonblack /\ got_nonblack)

AnalyzeDiff ==
    /\ cls.by = "none"
    /\ cls' = [by |-> "analyze_diff",
               diff |-> AnyNe(Px5(refpx), Px5(gotpx)),
               cats |-> analyze_diff_cats(refpx, gotpx),
               deltas |-> {}]
    /\ UNCHANGED <<refpx, gotpx, notDiffVars>>

\* tools/quick_diff.py: the same masks, summed
quick_diff_cats(r, g) ==
    LET ref5 == Px5(r)
        got5 == Px5(g)
        diff == AnyNe(ref5, got5)
        ref_nonblack == AnyNonZero(ref5)
        got_nonblack == AnyNonZero(got5)
    IN CatsOf(~diff,
              diff /\ ref_nonblack /\ ~got_nonblack,
              diff /\ ~ref_nonblack /\ got_nonblack,
              diff /\ ref_nonblack /\ got_nonblack)

QuickDiff ==
    /\ cls.by = "none"
    /\ cls' = [by |-> "quick_diff",
               diff |-> AnyNe(Px5(refpx), Px5(gotpx)),
               cats |-> quick_diff_cats(refpx, gotpx),
               deltas |-> {}]
    /\ UNCHANGED <<refpx, gotpx, notDiffVars>>

\* tools/analyze_line.py: miss, extra, color
analyze_line_cats(r, g) ==
    LET ref5 == Px5(r)
        got5 == Px5(g)
        diff == AnyNe(ref5, got5)
    IN CatsOf(~diff,
              diff /\ AllZero(got5) /\ AnyNonZero(ref5),
              diff /\ AllZero(ref5) /\ AnyNonZero(got5),
              diff /\ AnyNonZero(ref5) /\ AnyNonZero(got5))

AnalyzeLine ==
    /\ cls.by = "none"
    /\ cls' = [by |-> "analyze_line",
               diff |-> AnyNe(Px5(refpx), Px5(gotpx)),
               cats |-> analyze_line_cats(refpx, gotpx),
               deltas |-> {}]
    /\ UNCHANGED <<refpx, gotpx, notDiffVars>>

\* tools/full_breakdown.py: miss, extra, color_mask (the complement form)
full_breakdown_cats(r, g) ==
    LET ref5 == Px5(r)
        got5 == Px5(g)
        diff == AnyNe(ref5, got5)
        ref_black == AllZero(ref5)
        got_black == AllZero(got5)
        miss == diff /\ got_black /\ ~ref_black
        extra == diff /\ ref_black /\ ~got_black
        color_mask == diff /\ ~(diff /\ got_black /\ ~ref_black)
                           /\ ~(diff /\ ref_black /\ ~got_black)
    IN CatsOf(~diff, miss, extra, color_mask)

\* full_breakdown.py: delta5 = got5 - ref5 over color_mask only
full_breakdown_deltas(r, g) ==
    IF "ColorDivergent" \in full_breakdown_cats(r, g)
    THEN {Delta(Px5(g), Px5(r))} ELSE {}

FullBreakdown ==
    /\ cls.by = "none"
    /\ cls' = [by |-> "full_breakdown",
               diff |-> AnyNe(Px5(refpx), Px5(gotpx)),
               cats |-> full_breakdown_cats(refpx, gotpx),
               deltas |-> full_breakdown_deltas(refpx, gotpx)]
    /\ UNCHANGED <<refpx, gotpx, notDiffVars>>

\* tools/analyze_polygon_miss.py: miss_mask, extra_mask, color_mask
analyze_polygon_miss_cats(r, g) ==
    LET ref5 == Px5(r)
        got5 == Px5(g)
        diff_mask == AnyNe(ref5, got5)
        ref_black == AllZero(ref5)
        got_black == AllZero(got5)
        miss_mask == diff_mask /\ got_black /\ ~ref_black
        extra_mask == diff_mask /\ ref_black /\ ~got_black
        color_mask == diff_mask /\ ~miss_mask /\ ~extra_mask
    IN CatsOf(~diff_mask, miss_mask, extra_mask, color_mask)

\* analyze_polygon_miss.py: deltas = got5[color_mask] - ref5[color_mask]
analyze_polygon_miss_deltas(r, g) ==
    IF "ColorDivergent" \in analyze_polygon_miss_cats(r, g)
    THEN {Delta(Px5(g), Px5(r))} ELSE {}

AnalyzePolygonMiss ==
    /\ cls.by = "none"
    /\ cls' = [by |-> "analyze_polygon_miss",
               diff |-> AnyNe(Px5(refpx), Px5(gotpx)),
               cats |-> analyze_polygon_miss_cats(refpx, gotpx),
               deltas |-> analyze_polygon_miss_deltas(refpx, gotpx)]
    /\ UNCHANGED <<refpx, gotpx, notDiffVars>>

\* tools/categorize_diffs.py: masks over the differing pixels only
categorize_diffs_cats(r, g) ==
    LET r5 == Px5(r)
        g5 == Px5(g)
        diff == ~(\A k \in 1 .. 3 : r5[k] = g5[k])
        got_zero == AllZero(g5)
        ref_nonzero == AnyNonZero(r5)
        ref_zero == AllZero(r5)
        got_nonzero == AnyNonZero(g5)
    IN CatsOf(~diff,
              diff /\ got_zero /\ ref_nonzero,
              diff /\ ref_zero /\ got_nonzero,
              diff /\ ~got_zero /\ ~ref_zero /\ ref_nonzero)

CategorizeDiffs ==
    /\ cls.by = "none"
    /\ cls' = [by |-> "categorize_diffs",
               diff |-> ~(\A k \in 1 .. 3 : Px5(refpx)[k] = Px5(gotpx)[k]),
               cats |-> categorize_diffs_cats(refpx, gotpx),
               deltas |-> {}]
    /\ UNCHANGED <<refpx, gotpx, notDiffVars>>

\* the if / elif chain with the black tests on the 8-bit tuples
compare_tex_rect_cat_black8(rp, gp) ==
    LET rr == Shr(rp[1], 3)  rg == Shr(rp[2], 3)  rb == Shr(rp[3], 3)
        gr == Shr(gp[1], 3)  gg == Shr(gp[2], 3)  gb == Shr(gp[3], 3)
    IN IF <<rr, rg, rb>> = <<gr, gg, gb>> THEN "Match"
       ELSE IF rp = <<0, 0, 0>> /\ gp # <<0, 0, 0>> THEN "Extra"
       ELSE IF rp # <<0, 0, 0>> /\ gp = <<0, 0, 0>> THEN "Missing"
       ELSE "ColorDivergent"

\* tools/compare_tex_rect.py: the if / elif chain over 5-bit tuples
compare_tex_rect_cat(rp, gp) ==
    LET rr == Shr(rp[1], 3)  rg == Shr(rp[2], 3)  rb == Shr(rp[3], 3)
        gr == Shr(gp[1], 3)  gg == Shr(gp[2], 3)  gb == Shr(gp[3], 3)
    IN IF <<rr, rg, rb>> = <<gr, gg, gb>> THEN "Match"
       ELSE IF <<rr, rg, rb>> = <<0, 0, 0>> /\ <<gr, gg, gb>> # <<0, 0, 0>> THEN "Extra"
       ELSE IF <<rr, rg, rb>> # <<0, 0, 0>> /\ <<gr, gg, gb>> = <<0, 0, 0>> THEN "Missing"
       ELSE "ColorDivergent"

CompareTexRect ==
    /\ cls.by = "none"
    /\ cls' = [by |-> "compare_tex_rect",
               diff |-> compare_tex_rect_cat(refpx, gotpx) # "Match",
               cats |-> {compare_tex_rect_cat(refpx, gotpx)},
               deltas |-> {}]
    /\ UNCHANGED <<refpx, gotpx, notDiffVars>>

\* tools/analyze_mask.py: the channel-sum form, for a pixel of diff_positions
analyze_mask_cat_red_only(r, g) ==
    LET r_px == Px5(r)
        g_px == Px5(g)
        r_sum == r_px[1]
        g_sum == g_px[1]
    IN IF g_sum = 0 /\ r_sum > 0 THEN "Missing"
       ELSE IF r_sum = 0 /\ g_sum > 0 THEN "Extra"
       ELSE "ColorDivergent"

analyze_mask_cat(r, g) ==
    LET r_px == Px5(r)
        g_px == Px5(g)
        r_sum == r_px[1] + r_px[2] + r_px[3]
        g_sum == g_px[1] + g_px[2] + g_px[3]
    IN IF g_sum = 0 /\ r_sum > 0 THEN "Missing"
       ELSE IF r_sum = 0 /\ g_sum > 0 THEN "Extra"
       ELSE "ColorDivergent"

\* analyze_mask.py: deltas_r/g/b are appended in the colour branch only
analyze_mask_deltas(r, g) ==
    IF AnyNe(Px5(r), Px5(g)) /\ analyze_mask_cat(r, g) = "ColorDivergent"
    THEN {Delta(Px5(g), Px5(r))} ELSE {}

AnalyzeMask ==
    /\ cls.by = "none"
    /\ LET diff_mask == AnyNe(Px5(refpx), Px5(gotpx)) IN
       cls' = [by |-> "analyze_mask",
               diff |-> diff_mask,
               cats |-> IF diff_mask THEN {analyze_mask_cat(refpx, gotpx)} ELSE {"Match"},
               deltas |-> analyze_mask_deltas(refpx, gotpx)]
    /\ UNCHANGED <<refpx, gotpx, notDiffVars>>

\* tools/run_16bpp_tests.compare: diff = (d5 != r5).any(axis=2)
compare_diff(dump_px, ref_px) ==
    LET d5 == [k \in 1 .. 3 |-> to_5bit(dump_px[k])]
        r5 == [k \in 1 .. 3 |-> to_5bit(ref_px[k])]
    IN AnyNe(d5, r5)

Compare16bpp ==
    /\ cls.by = "none"
    /\ cls' = [by |-> "run_16bpp_tests", diff |-> compare_diff(gotpx, refpx),
               cats |-> {}, deltas |-> {}]
    /\ UNCHANGED <<refpx, gotpx, notDiffVars>>

\* compare_vram.main: diff = |cur - ref| on the 8-bit arrays,
\* nonzero = count_nonzero(diff.sum(axis=2))
compare_vram_diff(cur, r) ==
    LET diff == [k \in 1 .. 3 |-> Abs(cur[k] - r[k])]
    IN diff[1] + diff[2] + diff[3] # 0

CompareVram ==
    /\ cls.by = "none"
    /\ cls' = [by |-> "compare_vram", diff |-> compare_vram_diff(gotpx, refpx),
               cats |-> {}, deltas |-> {}]
    /\ UNCHANGED <<refpx, gotpx, notDiffVars>>

Max3(a) ==
    IF a[1] >= a[2] /\ a[1] >= a[3] THEN a[1]
    ELSE IF a[2] >= a[3] THEN a[2] ELSE a[3]

\* tools/analyze_rects.main: maxdiff = |cur - ref|.max(axis=2), counted when > 0
analyze_rects_diff(cur, r) ==
    Max3([k \in 1 .. 3 |-> Abs(cur[k] - r[k])]) > 0

AnalyzeRects ==
    /\ cls.by = "none"
    /\ cls' = [by |-> "analyze_rects", diff |-> analyze_rects_diff(gotpx, refpx),
               cats |-> {}, deltas |-> {}]
    /\ UNCHANGED <<refpx, gotpx, notDiffVars>>

\* analyze.compare_images: a pixel differs when a channel differs by more than 10
compare_images_diff(p1, p2) ==
    \/ Abs(p1[1] - p2[1]) > 10
    \/ Abs(p1[2] - p2[2]) > 10
    \/ Abs(p1[3] - p2[3]) > 10

CompareImages ==
    /\ cls.by = "none"
    /\ cls' = [by |-> "compare_images", diff |-> compare_images_diff(gotpx, refpx),
               cats |-> {}, deltas |-> {}]
    /\ UNCHANGED <<refpx, gotpx, notDiffVars>>

InitDiff ==
    /\ refpx \in RefChannels \X RefChannels \X RefChannels
    /\ gotpx \in GotChannels \X GotChannels \X GotChannels
    /\ cls = [by |-> "none"]
    /\ IdleLoad /\ IdleCodec /\ IdleImage /\ IdleRun /\ IdleShape /\ IdleAmp /\ IdleRegion /\ IdleRunner /\ IdleEmu

NextDiff ==
    \/ AnalyzeDiff
    \/ QuickDiff
    \/ AnalyzeLine
    \/ FullBreakdown
    \/ AnalyzePolygonMiss
    \/ CategorizeDiffs
    \/ CompareTexRect
    \/ AnalyzeMask
    \/ Compare16bpp
    \/ CompareVram
    \/ AnalyzeRects
    \/ CompareImages

SpecDiff == InitDiff /\ [][NextDiff]_vars

\* the scripts that sort a differing pixel into Missing / Extra / ColorDivergent
Classifiers ==
    {"analyze_diff", "quick_diff", "analyze_line", "full_breakdown",
     "analyze_polygon_miss", "categorize_diffs", "compare_tex_rect", "analyze_mask"}

\* the scripts that count differing pixels with no tolerance
ExactComparators == Classifiers \cup {"run_16bpp_tests", "compare_vram", "analyze_rects"}

\* the scripts that record per-channel deltas
DeltaRecorders == {"full_breakdown", "analyze_polygon_miss", "analyze_mask"}

\* the pair at 5-bit precision: floor(value / 8), never rounded
Exp5 == [k \in 1 .. 3 |-> refpx[k] \div 8]

Act5 == [k \in 1 .. 3 |-> gotpx[k] \div 8]

\* C5: every comparison that reports a differing-pixel count counts a pixel
\* exactly when its 5-bit-normalized (R,G,B) tuples differ, so pixels that
\* differ only in the low 3 bits (248 vs 255) are never counted.
ComparedAt5Bit ==
    cls.by \in ExactComparators => (cls.diff <=> Exp5 # Act5)

\* C7: for every pixel pair exactly one of Match, Missing, Extra,
\* ColorDivergent applies, and a pixel is in one of the three diff
\* categories exactly when it differs.
ExactlyOneCategory ==
    cls.by \in Classifiers =>
        /\ Cardinality(cls.cats) = 1
        /\ cls.cats \subseteq {"Match", "Missing", "Extra", "ColorDivergent"}
        /\ (Exp5 # Act5) <=> ("Match" \notin cls.cats)
        /\ cls.diff <=> (cls.cats \cap {"Missing", "Extra", "ColorDivergent"} # {})

\* C7 witness: a classifier ran on a differing pair of two non-black pixels
ExactlyOneCategoryWitness ==
    /\ cls.by = "analyze_diff"
    /\ Exp5 = <<31, 0, 0>> /\ Act5 = <<31, 31, 0>>
    /\ cls.cats = {"ColorDivergent"}

IsBlack5(p) == p = <<0, 0, 0>>

\* C8: a non-matching pair is Missing iff expected has a non-zero channel and
\* actual is (0,0,0), Extra iff expected is (0,0,0) and actual has a non-zero
\* channel, ColorDivergent iff both have a non-zero channel.
CategoryDefinitions ==
    (cls.by \in Classifiers /\ Exp5 # Act5) =>
        /\ ("Missing" \in cls.cats) <=> (~IsBlack5(Exp5) /\ IsBlack5(Act5))
        /\ ("Extra" \in cls.cats) <=> (IsBlack5(Exp5) /\ ~IsBlack5(Act5))
        /\ ("ColorDivergent" \in cls.cats) <=> (~IsBlack5(Exp5) /\ ~IsBlack5(Act5))

\* C8 witness: the channel-sum classifier ran on a pixel whose red channel is
\* zero in both images and whose reference is not black
CategoryDefinitionsWitness ==
    /\ cls.by = "analyze_mask"
    /\ Exp5 = <<0, 31, 0>> /\ Act5 = <<0, 0, 0>>
    /\ cls.cats = {"Missing"}

\* C9: for every non-Match pixel, whatever its category, the signed delta
\* actual - expected is recorded, each component in -31..31 and one non-zero.
DeltaForEveryNonMatch ==
    (cls.by \in DeltaRecorders /\ Exp5 # Act5) =>
        /\ cls.deltas = {[k \in 1 .. 3 |-> Act5[k] - Exp5[k]]}
        /\ \A d \in cls.deltas :
              /\ \A k \in 1 .. 3 : d[k] \in -31 .. 31
              /\ \E k \in 1 .. 3 : d[k] # 0

\* the four differently written classifiers
FourForms == {"analyze_diff", "full_breakdown", "analyze_mask", "compare_tex_rect"}

\* C28: the mask form, the complement form, the channel-sum form and the
\* tuple if/elif form assign the same one of Match / Missing / Extra /
\* ColorDivergent to every pair of pixels: what any of them computed for the
\* pair is what each of the other three computes for it.
FourFormsAgree ==
    cls.by \in FourForms =>
        /\ cls.cats = analyze_diff_cats(refpx, gotpx)
        /\ cls.cats = full_breakdown_cats(refpx, gotpx)
        /\ cls.cats = {compare_tex_rect_cat(refpx, gotpx)}
        /\ cls.cats = IF AnyNe(Px5(refpx), Px5(gotpx))
                      THEN {analyze_mask_cat(refpx, gotpx)} ELSE {"Match"}
        /\ Cardinality(cls.cats) = 1

\* C28 witness: the complement form ran on a reference pixel that is black
\* only at 5 bits and a red dump pixel
FourFormsAgreeWitness ==
    /\ cls.by = "full_breakdown"
    /\ refpx = <<7, 7, 7>> /\ gotpx = <<248, 0, 0>>
    /\ cls.cats = {"Extra"}

(***************************************************************************)
(* SpecImage: whole-image comparison.                                      *)
(*                                                                         *)
(* An image of h x w pixels is its first WinPix pixels (win) and one       *)
(* colour (bg) shared by all its other pixels.  ref and got have the same  *)
(* shape.  A mask count is the count over the window plus, when the mask   *)
(* holds for the background pair, the number of background pixels.         *)
(***************************************************************************)
\* number of individually coloured pixels of an image
WinPix == 2

\* run_16bpp_tests: the display region the reference PNGs cover
REF_W == 320

REF_H == 224

\* image shapes (h, w): tiny canvases, the runner's crop, larger screenshots
Shapes == {<<2, 2>>, <<4, 4>>, <<REF_H, REF_W>>, <<240, 320>>}

Black == <<0, 0, 0>>

\* 8-bit colours of reference pixels and of decoded dump pixels
RefPalette == {Black, <<248, 0, 0>>, <<255, 0, 0>>, <<248, 248, 0>>}

GotPalette == {Black, <<248, 0, 0>>, <<248, 248, 0>>}

NPixels(im) == im.h * im.w

\* the (reference pixel, dump pixel) pairs an image pair can hold
PixelPairs == RefPalette \X GotPalette

\* np.sum / np.count_nonzero of a per-pixel mask, given as the set of
\* (reference pixel, dump pixel) pairs for which the mask is True
CountMask(mask) ==
    Cardinality({i \in 1 .. WinPix : <<ref.win[i], got.win[i]>> \in mask})
    + (IF <<ref.bg, got.bg>> \in mask THEN NPixels(ref) - WinPix ELSE 0)

RECURSIVE Gcd(_, _)
Gcd(a, b) == IF b = 0 THEN a ELSE Gcd(b, a % b)

\* the exact value n / d (d > 0) of a float quotient, in lowest terms
Rat(n, d) ==
    LET g == Gcd(Abs(n), d) IN <<n \div g, d \div g>>

\* 100.0 * (1 - total_diff / total_pixels)
MatchPct(total_diff, total_pixels) == Rat(100 * (total_pixels - total_diff), total_pixels)

\* round(x, 2) of x = n / d >= 0: the nearest hundredth
Round2(n, d) == Rat((2 * 100 * n + d) \div (2 * d), 100)

\* diff = np.any(ref5 != got5, axis=-1)
IsDiff5 == {pr \in PixelPairs : AnyNe(Px5(pr[1]), Px5(pr[2]))}

DiffCats == {"Missing", "Extra", "ColorDivergent"}

\* tools/analyze_diff.py: the 320x224 crop against the reference PNG;
\* a reference of another shape cannot be compared with the crop
AnalyzeDiffReport ==
    /\ report.by = "none"
    /\ IF <<ref.h, ref.w>> # <<224, 320>>
       THEN report' = [by |-> "analyze_diff", error |-> TRUE]
       ELSE LET total_diff == CountMask(IsDiff5)
                total_pixels == 320 * 224
            IN report' =
                 [by |-> "analyze_diff", error |-> FALSE,
                  total_diff |-> total_diff,
                  pct |-> MatchPct(total_diff, total_pixels),
                  counts |-> IF total_diff = 0 THEN <<>>
                             ELSE [c \in DiffCats |->
                                     CountMask({pr \in PixelPairs :
                                        c \in analyze_diff_cats(pr[1], pr[2])})]]
    /\ UNCHANGED <<ref, got, notImageVars>>

\* tools/full_breakdown.py: one (name)_ref.png / (name)_got.png pair
FullBreakdownReport ==
    /\ report.by = "none"
    /\ LET total == CountMask(IsDiff5) IN
       report' =
          [by |-> "full_breakdown", error |-> FALSE,
           total_diff |-> total,
           pct |-> IF total = 0 THEN Rat(100, 1) ELSE MatchPct(total, 71680),
           counts |-> IF total = 0 THEN [c \in DiffCats |-> 0]
                      ELSE [c \in DiffCats |->
                              CountMask({pr \in PixelPairs :
                                 c \in full_breakdown_cats(pr[1], pr[2])})]]
    /\ UNCHANGED <<ref, got, notImageVars>>

\* tools/quick_diff.py: one test's ref / got pair
QuickDiffReport ==
    /\ report.by = "none"
    /\ LET total_diff == CountMask(IsDiff5) IN
       report' =
          [by |-> "quick_diff", error |-> FALSE,
           total_diff |-> total_diff,
           pct |-> MatchPct(total_diff, 320 * 224),
           counts |-> [c \in DiffCats |->
                         CountMask({pr \in PixelPairs :
                            c \in quick_diff_cats(pr[1], pr[2])})]]
    /\ UNCHANGED <<ref, got, notImageVars>>

\* tools/run_16bpp_tests.compare(crop, ref_arr); main() asserts the reference
\* shape (REF_H, REF_W, 3) and crops the dump to it
CompareReport ==
    /\ report.by = "none"
    /\ <<ref.h, ref.w>> = <<REF_H, REF_W>>
    /\ LET diff == {pr \in PixelPairs : compare_diff(pr[2], pr[1])}
           diff_count == CountMask(diff)
           total == got.h * got.w
           exact == MatchPct(diff_count, total)
       IN report' =
            [by |-> "run_16bpp_tests", error |-> FALSE,
             total_diff |-> diff_count,
             pct |-> Round2(exact[1], exact[2]),
             counts |-> <<>>]
    /\ UNCHANGED <<ref, got, notImageVars>>

\* tools/analyze_line.py: the RenderLine ref / got pair; counts only, no
\* percentage is printed
AnalyzeLineReport ==
    /\ report.by = "none"
    /\ report' =
          [by |-> "analyze_line", error |-> FALSE,
           total_diff |-> CountMask({pr \in PixelPairs :
                                       AnyNe(Px5(pr[1]), Px5(pr[2]))}),
           counts |-> [c \in DiffCats |->
                         CountMask({pr \in PixelPairs :
                            c \in analyze_line_cats(pr[1], pr[2])})]]
    /\ UNCHANGED <<ref, got, notImageVars>>

InitImage ==
    /\ \E s \in Shapes :
          /\ ref \in [h : {s[1]}, w : {s[2]}, win : [1 .. WinPix -> RefPalette],
                      bg : RefPalette]
          /\ got \in [h : {s[1]}, w : {s[2]}, win : [1 .. WinPix -> GotPalette],
                      bg : GotPalette]
    /\ report = [by |-> "none"]
    /\ IdleLoad /\ IdleCodec /\ IdleDiff /\ IdleRun /\ IdleShape /\ IdleAmp /\ IdleRegion /\ IdleRunner /\ IdleEmu

NextImage ==
    \/ AnalyzeDiffReport
    \/ FullBreakdownReport
    \/ QuickDiffReport
    \/ CompareReport
    \/ AnalyzeLineReport

SpecImage == InitImage /\ [][NextImage]_vars

Reported == report.by # "none" /\ ~report.error

\* the two images agree at 5-bit precision in every pixel
SameAt5Bit ==
    /\ \A i \in 1 .. WinPix :
          \A k \in 1 .. 3 : ref.win[i][k] \div 8 = got.win[i][k] \div 8
    /\ \A k \in 1 .. 3 : ref.bg[k] \div 8 = got.bg[k] \div 8

\* C6: comparing a buffer with a copy of itself that is equal at normalized
\* precision yields zero pixels of every diff category and a match
\* percentage of exactly 100.0.
IdentityIsPerfect ==
    (Reported /\ SameAt5Bit) =>
        /\ report.total_diff = 0
        /\ \A c \in DOMAIN report.counts : report.counts[c] = 0
        /\ ("pct" \in DOMAIN report) => (report.pct = <<100, 1>>)

\* C6 witness: the copy differs from the reference in low bits only
IdentityIsPerfectWitness ==
    /\ report.by = "run_16bpp_tests"
    /\ SameAt5Bit
    /\ ref.bg = <<255, 0, 0>> /\ got.bg = <<248, 0, 0>>
    /\ report.pct = <<100, 1>>

\* the number of pixels of the compared buffers that differ at 5 bits
ActualDiff ==
    Cardinality({i \in 1 .. WinPix :
                    \E k \in 1 .. 3 : ref.win[i][k] \div 8 # got.win[i][k] \div 8})
    + (IF \E k \in 1 .. 3 : ref.bg[k] \div 8 # got.bg[k] \div 8
       THEN ref.h * ref.w - WinPix ELSE 0)

\* C10: match percentage = 100 * (1 - total_diff / total_pixels) with
\* total_pixels the actual pixel count of the compared images, whatever their
\* size; it lies in 0..100 and is 100 only when total_diff is 0.
MatchPercentage ==
    (Reported /\ report.by \in {"analyze_diff", "full_breakdown", "quick_diff"}) =>
        /\ report.total_diff = ActualDiff
        /\ report.pct = Rat(100 * (ref.h * ref.w - report.total_diff), ref.h * ref.w)
        /\ report.pct[1] >= 0
        /\ report.pct[1] <= 100 * report.pct[2]
        /\ (report.pct = <<100, 1>>) => (report.total_diff = 0)

\* the expected buffer of the 16-pixel scenarios: a 4x4 canvas, black except
\* one pixel that is red (31,0,0) at 5-bit precision
Red5(p) == Px5(p) = <<31, 0, 0>>

ScenarioExpected(i) ==
    /\ <<ref.h, ref.w>> = <<4, 4>>
    /\ Red5(ref.win[i])
    /\ \A j \in (1 .. WinPix) \ {i} : ref.win[j] = Black
    /\ ref.bg = Black

\* Scenario B: the actual buffer has the red pixel black
ScenarioB ==
    /\ \E i \in 1 .. WinPix : ScenarioExpected(i)
    /\ \A j \in 1 .. WinPix : got.win[j] = Black
    /\ got.bg = Black

\* Scenario C: the actual buffer has the red pixel and one more red pixel
\* where the expected buffer is black
ScenarioC ==
    /\ \E i \in 1 .. WinPix : \E e \in (1 .. WinPix) \ {i} :
          /\ ScenarioExpected(i)
          /\ Red5(got.win[i])
          /\ Red5(got.win[e])
          /\ \A j \in (1 .. WinPix) \ {i, e} : got.win[j] = Black
    /\ got.bg = Black

\* 93.75 = (16 - 1) / 16 * 100
Pct9375 == Rat(100 * (16 - 1), 16)

\* C11: in Scenario B the report holds exactly 1 Missing pixel, 0 Extra,
\* 0 ColorDivergent and a match percentage of 93.75.
ScenarioBReport ==
    (Reported /\ report.by \in {"quick_diff", "analyze_diff"} /\ ScenarioB) =>
        /\ report.counts = [c \in DiffCats |-> IF c = "Missing" THEN 1 ELSE 0]
        /\ report.pct = Pct9375

\* C12: in Scenario C the report holds exactly 1 Extra pixel, 0 Missing,
\* 0 ColorDivergent and a match percentage of 93.75.
ScenarioCReport ==
    (Reported /\ report.by \in {"quick_diff", "analyze_line"} /\ ScenarioC) =>
        /\ report.counts = [c \in DiffCats |-> IF c = "Extra" THEN 1 ELSE 0]
        /\ ("pct" \in DOMAIN report) => (report.pct = Pct9375)

\* the comparison entry points that take no tolerance argument
NoToleranceArgument == {"compare_images", "run_16bpp_tests"}

\* C13: the match tolerance defaults to 0: a comparison invoked without a
\* tolerance argument treats two pixels as a Match only when all their
\* channels are equal, so a channel difference of 1..10 counts as differing.
ZeroToleranceDefault ==
    (cls.by \in NoToleranceArgument /\ ~cls.diff) => (Exp5 = Act5)

\* the numbers that appear in the messages a loader printed
PrintedNumbers == UNION {{m[k] : k \in 2 .. Len(m)} : m \in load.printed}

\* the loaders that accept a dump only at a supported size
SizeCheckingLoaders == {"load_vram_bin", "check_vram_tex", "load_vram_dump"}

\* C14: when the byte length matches neither supported size, the reported
\* failure contains the actual byte length and both expected sizes
\* (width*height*2 and width*height*4), and nothing is decoded.
FailureReportsSizes ==
    (load.by \in SizeCheckingLoaders /\ data_len \notin {expected_16, expected_32}) =>
        /\ {data_len, VRAM_W * VRAM_H * 2, VRAM_W * VRAM_H * 4} \subseteq PrintedNumbers
        /\ load.path = "none"
        /\ ~load.img

\* the exact byte length a decoder's input must have
ExactLength ==
    IF load.by = "vram_viewer" THEN VRAM_W * VRAM_H * 2
    ELSE IF load.by = "analyze_image" THEN VRAM_W * VRAM_H * 4
    ELSE 0

\* C17: decoding never substitutes default data for malformed input: for
\* every input length other than exactly width*height*bytes_per_pixel no
\* output image is produced; a short input is never padded and a long input
\* is never truncated.
NoSubstitutedData ==
    (load.by \in {"vram_viewer", "analyze_image"} /\ data_len # ExactLength) =>
        ~load.img

(***************************************************************************)
(* SpecRun: one invocation of a comparison script, step by step.           *)
(*                                                                         *)
(* fs is what the invocation finds on disk: whether the dump path and the  *)
(* reference path exist, the dump (a raw .bin of some byte length, or a    *)
(* PNG of some size) and the size of the reference image.  run records     *)
(* the script, its position, the output files written so far, the          *)
(* messages printed so far, and whether the reference was resized.         *)
(***************************************************************************)
\* Image.size (width, height) of a decoded VRAM dump
DumpSize == <<VRAM_W, VRAM_H>>

\* byte lengths of the .bin dump: 16-bit, 32-bit, truncated
RunDumpLengths == {expected_16, expected_32, expected_16 - 2}

\* sizes of PNG images: a full VRAM image, a screenshot, the display crop
ImageSizes == {DumpSize, <<320, 240>>, <<REF_W, REF_H>>}

Dumps ==
    [kind : {"bin"}, len : RunDumpLengths] \cup [kind : {"png"}, size : ImageSizes]

InitRun ==
    /\ fs \in [dump_exists : BOOLEAN, ref_exists : BOOLEAN,
               dump : Dumps, ref_size : ImageSizes]
    /\ run = [by |-> "none"]
    /\ IdleLoad /\ IdleCodec /\ IdleDiff /\ IdleImage /\ IdleShape /\ IdleAmp /\ IdleRegion /\ IdleRunner /\ IdleEmu

\* a finished invocation
Ended(by, outcome, written, printed, resized, img1) ==
    [by |-> by, pc |-> "done", outcome |-> outcome, written |-> written,
     printed |-> printed, resized |-> resized, img1 |-> img1]

\* compare_vram.main, lines 32-43: the dump path is checked, then loaded
CompareVramLoad ==
    /\ run.by = "none"
    /\ fs.dump.kind = "bin"
    /\ IF ~fs.dump_exists
       THEN run' = Ended("compare_vram", "aborted", {}, {"ERROR: not found"},
                         FALSE, <<>>)
       ELSE IF load_vram_bin(fs.dump.len) = "none"
       THEN run' = Ended("compare_vram", "aborted", {},
                         {"File size", "WARNING: unexpected file size"},
                         FALSE, <<>>)
       ELSE run' = [by |-> "compare_vram", pc |-> "save", outcome |-> "running",
                    written |-> {}, printed |-> {"File size", "Detected"},
                    resized |-> FALSE, img1 |-> DumpSize]
    /\ UNCHANGED <<fs, notRunVars>>

\* compare_vram.main, lines 45-63: pixel samples, then the decoded dump is saved
CompareVramSave ==
    /\ run.by = "compare_vram" /\ run.pc = "save"
    /\ run' = [run EXCEPT !.pc = "ref",
                          !.written = @ \cup {"vram_current.png"},
                          !.printed = @ \cup {"Saved vram_current.png"}]
    /\ UNCHANGED <<fs, notRunVars>>

\* compare_vram.main, lines 65-71: only now is the reference path checked
CompareVramRef ==
    /\ run.by = "compare_vram" /\ run.pc = "ref"
    /\ IF ~fs.ref_exists
       THEN run' = [run EXCEPT !.pc = "done", !.outcome = "aborted",
                               !.printed = @ \cup {"WARNING: not found, skipping comparison"}]
       ELSE run' = [run EXCEPT !.pc = "diff",
                               !.printed = @ \cup {"Reference size"}]
    /\ UNCHANGED <<fs, notRunVars>>

\* compare_vram.main, lines 73-114: the reference is sampled at (768,256) and
\* subtracted from the dump as it is; a reference of another size raises
\* (IndexError / ValueError), nothing resizes it
CompareVramDiff ==
    /\ run.by = "compare_vram" /\ run.pc = "diff"
    /\ IF fs.ref_size # run.img1
       THEN run' = [run EXCEPT !.pc = "done", !.outcome = "crashed"]
       ELSE run' = [run EXCEPT !.pc = "done", !.outcome = "finished",
                               !.written = @ \cup {"vram_diff.png"},
                               !.printed = @ \cup {"Comparison Results",
                                                   "Saved vram_diff.png"}]
    /\ UNCHANGED <<fs, notRunVars>>

\* analyze.compare_images, lines 146-158: both images are opened inside the
\* try block; a missing file or a short .bin ends in "Comparison failed"
CompareImagesOpen ==
    /\ run.by = "none"
    /\ LET ok1 == /\ fs.dump_exists
                  /\ (fs.dump.kind = "bin" => fs.dump.len = expected_32)
           ok2 == fs.ref_exists
       IN IF ok1 /\ ok2
          THEN run' = [by |-> "compare_images", pc |-> "size",
                       outcome |-> "running", written |-> {}, printed |-> {},
                       resized |-> FALSE,
                       img1 |-> IF fs.dump.kind = "bin" THEN DumpSize
                                ELSE fs.dump.size]
          ELSE run' = Ended("compare_images", "aborted", {},
                            {"Comparison failed"}, FALSE, <<>>)
    /\ UNCHANGED <<fs, notRunVars>>

\* analyze.compare_images, lines 160-165
CompareImagesResize ==
    /\ run.by = "compare_images" /\ run.pc = "size"
    /\ IF run.img1 # fs.ref_size
       THEN run' = [run EXCEPT !.pc = "compare", !.resized = TRUE,
                               !.printed = @ \cup {"Size mismatch",
                                                   "Resized reference"}]
       ELSE run' = [run EXCEPT !.pc = "compare"]
    /\ UNCHANGED <<fs, notRunVars>>

\* analyze.compare_images, lines 167-206: the diff image is written on FAIL
CompareImagesCompare ==
    /\ run.by = "compare_images" /\ run.pc = "compare"
    /\ \E pass \in BOOLEAN :
          run' = [run EXCEPT !.pc = "done", !.outcome = "finished",
                     !.written = IF pass THEN @ ELSE @ \cup {"diff.png"},
                     !.printed = @ \cup {"Match Rate"}
                                   \cup (IF pass THEN {"PASS"}
                                         ELSE {"FAIL", "Saved difference image"})]
    /\ UNCHANGED <<fs, notRunVars>>

\* analyze.analyze_image: the path is checked, a .bin is converted and saved
\* as (path).png, then the image is analysed
AnalyzeImage ==
    /\ run.by = "none"
    /\ IF ~fs.dump_exists
       THEN run' = Ended("analyze_image", "aborted", {}, {"Image not found"},
                         FALSE, <<>>)
       ELSE IF fs.dump.kind = "bin" /\ fs.dump.len # expected_32
       THEN run' = Ended("analyze_image", "aborted", {},
                         {"Failed to open image"}, FALSE, <<>>)
       ELSE IF fs.dump.kind = "bin"
       THEN run' = Ended("analyze_image", "finished", {"bin.png"},
                         {"converted dump", "Analysis", "SHAPE", "RESULT"},
                         FALSE, DumpSize)
       ELSE run' = Ended("analyze_image", "finished", {},
                         {"Analysis", "SHAPE", "RESULT"}, FALSE, fs.dump.size)
    /\ UNCHANGED <<fs, notRunVars>>

NextRun ==
    \/ CompareVramLoad
    \/ CompareVramSave
    \/ CompareVramRef
    \/ CompareVramDiff
    \/ CompareImagesOpen
    \/ CompareImagesResize
    \/ CompareImagesCompare
    \/ AnalyzeImage

SpecRun == InitRun /\ [][NextRun]_vars

\* the invocations that compare a dump with a reference
TwoInputScripts == {"compare_vram", "compare_images"}

\* a path the invocation needs does not exist
InputMissing ==
    \/ ~fs.dump_exists
    \/ run.by \in TwoInputScripts /\ ~fs.ref_exists

\* C15: when the dump path or the reference path does not exist, the
\* comparison is aborted with the failure reported and at no point of the
\* invocation has an output file been written.
NoPartialOutput ==
    (run.by # "none" /\ InputMissing) =>
        /\ run.written = {}
        /\ (run.pc = "done") => (run.outcome = "aborted" /\ run.printed # {})

\* C16: the reference is resized to the dump's dimensions if and only if
\* their dimensions differ, and every resize is reported by a message; no
\* comparison with a differently sized reference proceeds or aborts without
\* that logged resize.
ResizeIffMismatch ==
    (run.by \in TwoInputScripts /\ run.pc = "done"
        /\ run.outcome \in {"finished", "crashed"}) =>
        /\ run.resized <=> (run.img1 # fs.ref_size)
        /\ run.resized => ("Resized reference" \in run.printed)

(***************************************************************************)
(* SpecShape: the shape heuristic of analyze.analyze_image.                *)
(*                                                                         *)
(* The image is sampled every `step` pixels.  scene says which samples     *)
(* are "active" (pass the colour test of lines 78-88): a pattern laid on   *)
(* a grid of cols x rows cells.  shape is what the heuristic computes.     *)
(***************************************************************************)
\* analyze_image: step = 10
step == 10

\* largest number of sample columns / rows of a scene
MaxSide == 15

SceneKinds == {"rect", "tri", "checker", "stripes", "sparse", "row"}

\* sample positions of a scene of cols x rows cells; "row" is a single row
\* of cols * rows samples, "sparse" spreads its cells three samples apart
SceneGrid(kind, cols, rows) ==
    IF kind = "row" THEN (0 .. cols * rows - 1) \X {0}
    ELSE IF kind = "sparse" THEN (0 .. 3 * cols - 3) \X (0 .. 3 * rows - 3)
    ELSE (0 .. cols - 1) \X (0 .. rows - 1)

\* should_count for the sample in column c[1], row c[2]
should_count(kind, cols, rows, c) ==
    CASE kind = "rect" -> TRUE
      [] kind = "row" -> TRUE
      [] kind = "tri" -> c[1] * (rows - 1) <= c[2] * (cols - 1)
      [] kind = "checker" -> (c[1] + c[2]) % 2 = 0
      [] kind = "stripes" -> c[1] % 5 < 3
      [] kind = "sparse" -> c[1] % 3 = 0 /\ c[2] % 3 = 0

\* active_pixels: the (x, y) of the samples that count
active_pixels(kind, cols, rows) ==
    {<<step * c[1], step * c[2]>> :
        c \in {g \in SceneGrid(kind, cols, rows) : should_count(kind, cols, rows, g)}}

Scenes ==
    {[kind |-> k, cols |-> c, rows |-> r, active |-> active_pixels(k, c, r)] :
        k \in SceneKinds, c \in (MaxSide - 5) .. MaxSide,
        r \in (MaxSide - 5) .. MaxSide}

\* element k (from 0) of the sorted list of coordinate `axis` of the pixels
SortedAt(pixels, axis, k) ==
    CHOOSE v \in {p[axis] : p \in pixels} :
        /\ Cardinality({p \in pixels : p[axis] < v}) <= k
        /\ k < Cardinality({p \in pixels : p[axis] <= v})

\* a trim of half the list from each end
trim_half(n) == n \div 2

\* trim = int(len(active_pixels) * 0.05)
trim(n) == (n * 5) \div 100

\* fill_ratio with the sampling stride left out
fill_ratio_unscaled(count_in_bbox, bbox_area) ==
    Rat(count_in_bbox, bbox_area + 1)

\* fill_ratio = (count_in_bbox * (step*step)) / (bbox_area + 1)
fill_ratio(count_in_bbox, bbox_area) ==
    Rat(count_in_bbox * (step * step), bbox_area + 1)

\* the label printed for a fill ratio r = <<num, den>>: > 0.8, 0.3 < r < 0.7, else
shape_label(r) ==
    IF 10 * r[1] > 8 * r[2] THEN "RECTANGLE"
    ELSE IF 3 * r[2] < 10 * r[1] /\ 10 * r[1] < 7 * r[2] THEN "TRIANGLE"
    ELSE "AMBIGUOUS"

\* analyze_image, lines 90-136
ShapeDetection ==
    /\ shape.by = "none"
    /\ LET pixels == scene.active
           n == Cardinality(pixels)
           t == trim(n)
       IN IF ~(n > 100)
          THEN shape' = [by |-> "analyze_image", n |-> n,
                         label |-> "NOT_ENOUGH_PIXELS"]
          ELSE IF n - 2 * t <= 0
          THEN shape' = [by |-> "analyze_image", n |-> n,
                         label |-> "NO_CLUSTER_FOUND"]
          ELSE \E min_x \in {SortedAt(pixels, 1, t)} :
               \E max_x \in {SortedAt(pixels, 1, n - t - 1)} :
               \E min_y \in {SortedAt(pixels, 2, t)} :
               \E max_y \in {SortedAt(pixels, 2, n - t - 1)} :
               LET bbox_w == max_x - min_x
                   bbox_h == max_y - min_y
                   bbox_area == bbox_w * bbox_h
                   count_in_bbox ==
                       Cardinality({p \in pixels :
                                      /\ min_x <= p[1] /\ p[1] <= max_x
                                      /\ min_y <= p[2] /\ p[2] <= max_y})
                   ratio == fill_ratio(count_in_bbox, bbox_area)
               IN shape' = [by |-> "analyze_image", n |-> n,
                            bbox |-> <<min_x, min_y, max_x, max_y>>,
                            bbox_area |-> bbox_area,
                            count_in_bbox |-> count_in_bbox,
                            fill_ratio |-> ratio,
                            label |-> shape_label(ratio)]
    /\ UNCHANGED <<scene, notShapeVars>>

InitShape ==
    /\ scene \in Scenes
    /\ shape = [by |-> "none"]
    /\ IdleLoad /\ IdleCodec /\ IdleDiff /\ IdleImage /\ IdleRun /\ IdleAmp /\ IdleRegion /\ IdleRunner /\ IdleEmu

NextShape == ShapeDetection

SpecShape == InitShape /\ [][NextShape]_vars

\* the label the stated thresholds give a fill ratio num / den (den > 0)
LabelOfRatio(num, den) ==
    IF 5 * num > 4 * den THEN "RECTANGLE"
    ELSE IF 10 * num > 3 * den /\ 10 * num < 7 * den THEN "TRIANGLE"
    ELSE "AMBIGUOUS"

\* the heuristic got as far as computing a fill ratio
RatioComputed == shape.by # "none" /\ "fill_ratio" \in DOMAIN shape

\* the sampled active pixels inside the reported bounding box
CountInBox ==
    Cardinality({p \in scene.active :
                   /\ shape.bbox[1] <= p[1] /\ p[1] <= shape.bbox[3]
                   /\ shape.bbox[2] <= p[2] /\ p[2] <= shape.bbox[4]})

BoxArea == (shape.bbox[3] - shape.bbox[1]) * (shape.bbox[4] - shape.bbox[2])

\* C18 as stated: fill_ratio = (sampled active pixels in the trimmed
\* bounding box) / (bounding-box area); RECTANGLE exactly when it is > 0.8,
\* TRIANGLE exactly when 0.3 < fill_ratio < 0.7, AMBIGUOUS otherwise.
ShapeByCountOverArea ==
    (RatioComputed /\ BoxArea > 0) =>
        /\ shape.fill_ratio = Rat(CountInBox, BoxArea)
        /\ shape.label = LabelOfRatio(CountInBox, BoxArea)

\* C18 amended: fill_ratio = (sampled active pixels in the trimmed bounding
\* box) * step * step / (bounding-box area + 1); RECTANGLE exactly when it is
\* > 0.8, TRIANGLE exactly when 0.3 < fill_ratio < 0.7, AMBIGUOUS otherwise;
\* exactly one of the three labels whenever more than 100 active pixels
\* were sampled.
ShapeByFillRatio ==
    /\ RatioComputed =>
          /\ shape.fill_ratio = Rat(CountInBox * step * step, BoxArea + 1)
          /\ shape.label = LabelOfRatio(CountInBox * step * step, BoxArea + 1)
    /\ (shape.by # "none") =>
          (RatioComputed <=> Cardinality(scene.active) > 100)

\* C18 witness: each of the three labels is reported; here TRIANGLE for a
\* half-filled box
ShapeByFillRatioWitness ==
    /\ RatioComputed
    /\ scene.kind = "checker"
    /\ shape.label = "TRIANGLE"
    /\ 10 * shape.fill_ratio[1] > 3 * shape.fill_ratio[2]

\* C29: whenever more than 100 active pixels are collected, trimming
\* int(0.05*n) entries from each end of the sorted x- and y-lists leaves
\* n - 2*int(0.05*n) > 0 entries with min <= max: NO_CLUSTER_FOUND is never
\* printed, the fill ratio has a positive denominator even for a box of
\* zero area, and exactly one of RECTANGLE / TRIANGLE / AMBIGUOUS is reported.
ClusterAlwaysFound ==
    (shape.by # "none" /\ Cardinality(scene.active) > 100) =>
        /\ shape.n = Cardinality(scene.active)
        /\ shape.n - 2 * trim(shape.n) > 0
        /\ shape.label # "NO_CLUSTER_FOUND"
        /\ shape.label \in {"RECTANGLE", "TRIANGLE", "AMBIGUOUS"}
        /\ RatioComputed
        /\ shape.bbox[1] <= shape.bbox[3] /\ shape.bbox[2] <= shape.bbox[4]
        /\ shape.bbox_area >= 0
        /\ shape.fill_ratio[2] > 0

\* C29 witness: all active samples on one row: a bounding box of zero area,
\* a fill ratio and a label all the same
ClusterAlwaysFoundWitness ==
    /\ shape.by # "none"
    /\ scene.kind = "row"
    /\ shape.n > 100
    /\ shape.bbox_area = 0
    /\ shape.label = "RECTANGLE"

(***************************************************************************)
(* SpecAmp: one channel of the amplified diff image.                       *)
(*                                                                         *)
(* chan is <<actual, expected>>: the same channel of the same pixel in the *)
(* decoded dump and in the reference, any two 8-bit values.                *)
(***************************************************************************)
Bytes == 0 .. 255

\* np.clip(v, lo, hi)
clip(v, lo, hi) == IF v < lo THEN lo ELSE IF v > hi THEN hi ELSE v

\* the diff image without the clip: the uint8 cast wraps
compare_vram_amp_wrapping(cur, r) ==
    AsUint8(Abs(cur - r) * 4)

\* compare_vram.main: diff = |arr_cur.astype(int) - arr_ref.astype(int)|,
\* diff_img = np.clip(diff * 4, 0, 255).astype(np.uint8)
compare_vram_amp(cur, r) ==
    AsUint8(clip(Abs(cur - r) * 4, 0, 255))

CompareVramAmp ==
    /\ amp.by = "none"
    /\ amp' = [by |-> "compare_vram", k |-> 4,
               out |-> compare_vram_amp(chan[1], chan[2])]
    /\ UNCHANGED <<chan, notAmpVars>>

\* run_16bpp_tests.compare: abs_diff = |dump_crop.astype(int) - ref_arr.astype(int)|,
\* diff_img = np.clip(abs_diff * 8, 0, 255).astype(np.uint8)
compare_amp(dump_ch, ref_ch) ==
    AsUint8(clip(Abs(dump_ch - ref_ch) * 8, 0, 255))

Compare16bppAmp ==
    /\ amp.by = "none"
    /\ amp' = [by |-> "run_16bpp_tests", k |-> 8,
               out |-> compare_amp(chan[1], chan[2])]
    /\ UNCHANGED <<chan, notAmpVars>>

InitAmp ==
    /\ chan \in Bytes \X Bytes
    /\ amp = [by |-> "none"]
    /\ IdleLoad /\ IdleCodec /\ IdleDiff /\ IdleImage /\ IdleRun /\ IdleShape /\ IdleRegion /\ IdleRunner /\ IdleEmu

NextAmp == CompareVramAmp \/ Compare16bppAmp

SpecAmp == InitAmp /\ [][NextAmp]_vars

\* C19: every channel of the amplified diff image is min(255, k * |actual -
\* expected|) for the script's factor k (4 or 8); it is 0 exactly when the
\* two input channels are equal and never wraps around past 255.
AmplifiedDiff ==
    amp.by # "none" =>
        LET d == IF chan[1] >= chan[2] THEN chan[1] - chan[2]
                 ELSE chan[2] - chan[1]
        IN /\ amp.k \in {4, 8}
           /\ amp.out = (IF amp.k * d < 255 THEN amp.k * d ELSE 255)
           /\ (amp.out = 0) <=> (chan[1] = chan[2])
           /\ amp.out \in 0 .. 255

\* C19 witness: a difference of 64 amplified by 4 saturates at 255
AmplifiedDiffWitness ==
    /\ amp.by = "compare_vram"
    /\ chan = <<0, 64>>
    /\ amp.out = 255

(***************************************************************************)
(* SpecRegion: per-rectangle and per-grid-cell summaries.                  *)
(*                                                                         *)
(* canvas is a reference / dump image pair of canvas.size = (w, h): the    *)
(* pixel pairs at the coordinates of canvas.special are given one by one,  *)
(* every other coordinate holds the pair canvas.bg.  A count over a        *)
(* rectangle is the count over its special pixels plus, when the           *)
(* background pair is counted, the number of its other pixels.             *)
(***************************************************************************)
\* (reference pixel, dump pixel): equal, missing, extra, colour-divergent,
\* and equal at 5 bits but not at 8
RegionPairs ==
    {<<Black, Black>>, <<<<248, 0, 0>>, Black>>, <<Black, <<248, 0, 0>>>>,
     <<<<248, 0, 0>>, <<248, 248, 0>>>>, <<<<255, 0, 0>>, <<248, 0, 0>>>>}

RegionBackgrounds == {<<Black, Black>>, <<<<248, 0, 0>>, <<248, 248, 0>>>>}

\* coordinates (x, y) of the individually given pixels: inside two
\* overlapping rectangles, just right of a rectangle and in the first
\* column of a grid cell, in the last row and column of the main display,
\* in the first column of the right region
RegionCoords == {<<34, 9>>, <<40, 8>>, <<319, 239>>, <<518, 0>>}

\* image sizes: the display crop, a full VRAM image, a half-size screenshot
CanvasSizes == {<<REF_W, REF_H>>, <<VRAM_W, VRAM_H>>, <<160, 120>>}

Min2(a, b) == IF a < b THEN a ELSE b

Pos(v) == IF v > 0 THEN v ELSE 0

\* the pixels with x0 <= x < x1 and y0 <= y < y1 whose pair is in mask,
\* counted inclusive of the right / lower bound
CountBoxInclusive(mask, x0, x1, y0, y1) ==
    LET sp == {c \in DOMAIN canvas.special :
                 x0 <= c[1] /\ c[1] <= x1 /\ y0 <= c[2] /\ c[2] <= y1}
    IN Cardinality({c \in sp : canvas.special[c] \in mask})
       + (IF canvas.bg \in mask
          THEN Pos(x1 - x0) * Pos(y1 - y0) - Cardinality(sp) ELSE 0)

\* the pixels with x0 <= x < x1 and y0 <= y < y1 whose pair is in mask:
\* range(px, px + w) of the loops, a[y0:y1, x0:x1] of numpy
CountBox(mask, x0, x1, y0, y1) ==
    LET sp == {c \in DOMAIN canvas.special :
                 x0 <= c[1] /\ c[1] < x1 /\ y0 <= c[2] /\ c[2] < y1}
    IN Cardinality({c \in sp : canvas.special[c] \in mask})
       + (IF canvas.bg \in mask
          THEN Pos(x1 - x0) * Pos(y1 - y0) - Cardinality(sp) ELSE 0)

\* a numpy slice a[y0:y1, x0:x1] stops at the array's bounds
CountSlice(mask, x0, x1, y0, y1) ==
    CountBox(mask, x0, Min2(x1, canvas.size[1]), y0, Min2(y1, canvas.size[2]))

\* tools/compare_tex_rect.py: positions (px, py, w, h, name)
positions ==
    <<<<32, 8, 8, 8, "8x8 raw">>, <<96, 8, 16, 16, "16x16 raw">>,
      <<160, 8, 32, 32, "32x32 raw">>, <<224, 8, 64, 64, "64x64 raw">>,
      <<34, 9, 8, 8, "8x8 flip alpha">>, <<100, 10, 16, 16, "16x16 flip alpha">>,
      <<168, 12, 32, 32, "32x32 flip alpha">>, <<240, 16, 64, 64, "64x64 flip alpha">>>>

\* the pairs compare_tex_rect.py puts in category cat
TexRectMask(cat) == {pr \in RegionPairs : compare_tex_rect_cat(pr[1], pr[2]) = cat}

\* getpixel succeeds for every pixel the loops visit in position p
Fits(p) ==
    /\ Min2(p[1] + p[3], 320) <= canvas.size[1]
    /\ Min2(p[2] + p[4], 224) <= canvas.size[2]

\* the positions whose line is printed: getpixel outside the image raises
\* IndexError and ends the script
PrintedPositions ==
    {i \in 1 .. Len(positions) : \A j \in 1 .. i : Fits(positions[j])}

\* tools/compare_tex_rect.py, lines 20-45: one line per position; pixels
\* with x >= 320 or y >= 224 are skipped
CompareTexRectRegions ==
    /\ regions.by = "none"
    /\ regions' =
         [by |-> "compare_tex_rect",
          crashed |-> PrintedPositions # 1 .. Len(positions),
          rows |-> {LET p == positions[i]
                        x1 == Min2(p[1] + p[3], 320)
                        y1 == Min2(p[2] + p[4], 224)
                    IN [rect |-> <<p[1], p[2], p[3], p[4]>>,
                        total |-> CountBox(RegionPairs, p[1], x1, p[2], y1),
                        match |-> CountBox(TexRectMask("Match"), p[1], x1, p[2], y1),
                        missing |-> CountBox(TexRectMask("Missing"), p[1], x1, p[2], y1),
                        extra |-> CountBox(TexRectMask("Extra"), p[1], x1, p[2], y1),
                        color |-> CountBox(TexRectMask("ColorDivergent"), p[1], x1, p[2], y1)]
                    : i \in PrintedPositions}]
    /\ UNCHANGED <<canvas, notRegionVars>>

\* the pairs compare_vram.main counts: diff.sum(axis=2) nonzero
CompareVramMask == {pr \in RegionPairs : compare_vram_diff(pr[2], pr[1])}

\* compare_vram.main, lines 84-109: the whole image, then the main display
\* diff[:240, :320], the right region diff[:512, 518:] and the bottom
\* display diff[240:480, :320], each with its hard-coded total
CompareVramRegions ==
    /\ regions.by = "none"
    /\ canvas.size = <<1024, 512>>
    /\ regions' =
         [by |-> "compare_vram",
          whole |-> CountSlice(CompareVramMask, 0, canvas.size[1], 0, canvas.size[2]),
          total_pixels |-> 1024 * 512,
          rows |-> {[rect |-> <<0, 0, 320, 240>>,
                     total |-> 240 * 320,
                     diff |-> CountSlice(CompareVramMask, 0, 320, 0, 240)],
                    [rect |-> <<518, 0, 1024 - 518, 512>>,
                     total |-> 512 * (1024 - 518),
                     diff |-> CountSlice(CompareVramMask, 518, canvas.size[1], 0, 512)],
                    [rect |-> <<0, 240, 320, 240>>,
                     total |-> 240 * 320,
                     diff |-> CountSlice(CompareVramMask, 0, 320, 240, 480)]}]
    /\ UNCHANGED <<canvas, notRegionVars>>

\* the pairs analyze_rects.main counts: maxdiff > 0
AnalyzeRectsMask == {pr \in RegionPairs : analyze_rects_diff(pr[2], pr[1])}

\* tools/analyze_rects.main, lines 21-50: the whole image, then the cells
\* maxdiff[gy:gy+20, gx:gx+20] of 4 groups x 2 rows x 16 columns (a cell's
\* line is printed when its count is not 0)
AnalyzeRectsRegions ==
    /\ regions.by = "none"
    /\ canvas.size = <<1024, 512>>
    /\ regions' =
         [by |-> "analyze_rects",
          whole |-> CountSlice(AnalyzeRectsMask, 0, canvas.size[1], 0, canvas.size[2]),
          total_pixels |-> 1024 * 512,
          rows |-> {LET gx == col * 20
                        gy == group * 64 + row * 20
                    IN [rect |-> <<gx, gy, 20, 20>>,
                        diff |-> CountSlice(AnalyzeRectsMask, gx, gx + 20, gy, gy + 20)]
                    : group \in 0 .. 3, row \in 0 .. 1, col \in 0 .. 15}]
    /\ UNCHANGED <<canvas, notRegionVars>>

InitRegion ==
    /\ \E size \in CanvasSizes :
       \E D \in SUBSET {c \in RegionCoords : c[1] < size[1] /\ c[2] < size[2]} :
          canvas \in [size : {size}, special : [D -> RegionPairs],
                      bg : RegionBackgrounds]
    /\ regions = [by |-> "none"]
    /\ IdleLoad /\ IdleCodec /\ IdleDiff /\ IdleImage /\ IdleRun /\ IdleShape /\ IdleAmp /\ IdleRunner /\ IdleEmu

NextRegion ==
    \/ CompareTexRectRegions
    \/ CompareVramRegions
    \/ AnalyzeRectsRegions

SpecRegion == InitRegion /\ [][NextRegion]_vars

\* the category of a pixel pair at 5-bit precision
PairCategory(pr) ==
    LET e == [k \in 1 .. 3 |-> pr[1][k] \div 8]
        a == [k \in 1 .. 3 |-> pr[2][k] \div 8]
    IN IF e = a THEN "Match"
       ELSE IF a = <<0, 0, 0>> THEN "Missing"
       ELSE IF e = <<0, 0, 0>> THEN "Extra"
       ELSE "ColorDivergent"

\* whether the script that ran counts the pair as differing in its
\* whole-image comparison
CountedDiffering(pr) ==
    IF regions.by = "compare_tex_rect" THEN PairCategory(pr) # "Match"
    ELSE pr[1] # pr[2]

\* the coordinates of rectangle rc = (x, y, w, h) that lie on the canvas
OnCanvas(rc, c) ==
    /\ rc[1] <= c[1] /\ c[1] < rc[1] + rc[3] /\ c[1] < canvas.size[1]
    /\ rc[2] <= c[2] /\ c[2] < rc[2] + rc[4] /\ c[2] < canvas.size[2]

InCanvasPixels(rc) ==
    Pos(Min2(rc[1] + rc[3], canvas.size[1]) - rc[1])
    * Pos(Min2(rc[2] + rc[4], canvas.size[2]) - rc[2])

\* the whole-image pixels inside rectangle rc whose pair is in the set pairs
InRectCount(rc, pairs) ==
    LET sp == {c \in DOMAIN canvas.special : OnCanvas(rc, c)}
    IN Cardinality({c \in sp : canvas.special[c] \in pairs})
       + (IF canvas.bg \in pairs THEN InCanvasPixels(rc) - Cardinality(sp) ELSE 0)

WholeRect == <<0, 0, canvas.size[1], canvas.size[2]>>

Differing == {pr \in RegionPairs : CountedDiffering(pr)}

\* the differing pixels a summary row reports
RowDiff(row) ==
    IF "diff" \in DOMAIN row THEN row.diff
    ELSE row.missing + row.extra + row.color

MaxDumps == 2

\* test directories holding a reference image
Tests == {"triangle", "texture-flip"}

\* differing-pixel counts: none, a few, a whole display crop, a whole VRAM
DiffCounts == {0, 3, REF_W * REF_H, VRAM_W * VRAM_H}

\* a vram_*.bin file: whether its size is one the loader accepts, and its
\* differing pixels against each test's reference
DumpFiles ==
    {d \in [ok : BOOLEAN, diff : [Tests -> DiffCounts]] :
        ~d.ok => \A t \in Tests : d.diff[t] = 0}

RECURSIVE SeqsUpTo(_, _)
SeqsUpTo(S, n) ==
    IF n = 0 THEN {<<>>}
    ELSE SeqsUpTo(S, n - 1) \cup [1 .. n -> S]

\* compare_vram.py, line 33: the reference it opens
ref_path == "triangle"

\* f'{100*nonzero/total_pixels:.1f}' read back with float(): tenths of a
\* percent, rounded to nearest, ties to even (100*n/2^19 is exact in binary)
format_1f(n, total) ==
    LET q == (1000 * n) \div total
        r == (1000 * n) % total
    IN IF 2 * r > total \/ (2 * r = total /\ q % 2 = 1) THEN q + 1 ELSE q

\* python3 tools/compare_vram.py dump ref: the percentage of the
\* "Differing pixels" line of its output, <<>> when no such line is printed;
\* main() reads sys.argv[1] only and opens ref_path
compare_vram_stdout(dump, ref_arg) ==
    IF ~dump.ok THEN <<>>
    ELSE <<format_1f(dump.diff[ref_path], VRAM_W * VRAM_H)>>

\* run_gpu_tests.py, lines 63-77: the loop over the sorted dumps
RECURSIVE gpu_best(_, _, _, _)
gpu_best(dumps, ref_arg, i, best) ==
    IF i > Len(dumps) THEN best
    ELSE LET m == compare_vram_stdout(dumps[i], ref_arg) IN
         IF m # <<>> /\ m[1] < best.best_diffl
         THEN gpu_best(dumps, ref_arg, i + 1,
                       [best_diffl |-> m[1], best_match |-> <<1000 - m[1]>>,
                        best_dump |-> <<i>>])
         ELSE gpu_best(dumps, ref_arg, i + 1, best)

\* run_gpu_tests.py, lines 59-96: one test with an .exe, after the emulator
\* was stopped
RunGpuTest ==
    /\ result.by = "none"
    /\ result' =
         IF ~suite.has5M
         THEN [by |-> "run_gpu_tests", printed |-> "No vram_5000000.bin produced",
               match |-> <<>>, diff |-> <<>>, from |-> <<>>,
               summary |-> "no result"]
         ELSE LET best == gpu_best(suite.dumps, suite.test, 1,
                                   [best_diffl |-> 1000, best_match |-> <<>>,
                                    best_dump |-> <<>>])
              IN IF best.best_dump # <<>>
                 THEN [by |-> "run_gpu_tests", printed |-> "RESULT",
                       match |-> best.best_match, diff |-> <<best.best_diffl>>,
                       from |-> best.best_dump, summary |-> "match"]
                 ELSE [by |-> "run_gpu_tests", printed |-> "COMPARE FAILED",
                       match |-> <<>>, diff |-> <<>>, from |-> <<>>,
                       summary |-> "no result"]
    /\ UNCHANGED <<suite, notRunnerVars>>

\* run_16bpp_tests.compare: round(100.0 * (1.0 - diff_count / total), 2) in
\* hundredths of a percent (the nearest hundredth; the counts of DiffCounts
\* are not at a tie)
match_pct(diff_count, total) ==
    (2 * 10000 * (total - diff_count) + total) \div (2 * total)

\* run_16bpp_tests.main, lines 142-157: the loop over the sorted dumps
RECURSIVE best_of_dumps(_, _, _, _)
best_of_dumps(dumps, test, i, best) ==
    IF i > Len(dumps) THEN best
    ELSE IF ~dumps[i].ok THEN best_of_dumps(dumps, test, i + 1, best)
    ELSE LET diff_count == dumps[i].diff[test]
             m == match_pct(diff_count, REF_W * REF_H)
         IN IF m > best.best_match
            THEN best_of_dumps(dumps, test, i + 1,
                               [best_match |-> m, best_info |-> <<diff_count>>,
                                best_dump_crop |-> <<i>>])
            ELSE best_of_dumps(dumps, test, i + 1, best)

\* run_16bpp_tests.main, lines 129-187: one test, after the emulator was
\* stopped, and its line of the summary
Run16bppTest ==
    /\ result.by = "none"
    /\ \A i \in 1 .. Len(suite.dumps) :
          suite.dumps[i].diff[suite.test] <= REF_W * REF_H
    /\ result' =
         IF suite.dumps = <<>>
         THEN [by |-> "run_16bpp_tests", printed |-> "NO VRAM DUMP produced!",
               match |-> <<>>, diff |-> <<>>, from |-> <<>>,
               summary |-> "NO RESULT", passed |-> 0]
         ELSE IF ~suite.ref_shape_ok
         THEN [by |-> "run_16bpp_tests", printed |-> "AssertionError",
               match |-> <<>>, diff |-> <<>>, from |-> <<>>,
               summary |-> "none", passed |-> 0]
         ELSE LET best == best_of_dumps(suite.dumps, suite.test, 1,
                                        [best_match |-> -1, best_info |-> <<>>,
                                         best_dump_crop |-> <<>>])
              IN IF best.best_dump_crop # <<>>
                 THEN [by |-> "run_16bpp_tests", printed |-> "best_info",
                       match |-> <<best.best_match>>, diff |-> best.best_info,
                       from |-> best.best_dump_crop,
                       summary |-> IF best.best_match = 10000 THEN "PASS 100%"
                                   ELSE "match",
                       passed |-> IF best.best_match = 10000 THEN 1 ELSE 0]
                 ELSE [by |-> "run_16bpp_tests", printed |-> "COMPARE FAILED",
                       match |-> <<>>, diff |-> <<>>, from |-> <<>>,
                       summary |-> "NO RESULT", passed |-> 0]
    /\ UNCHANGED <<suite, notRunnerVars>>

\* vram_5000000.bin can only exist when the glob finds a dump
InitRunner ==
    /\ suite \in {s \in [test : Tests, dumps : SeqsUpTo(DumpFiles, MaxDumps),
                         has5M : BOOLEAN, ref_shape_ok : BOOLEAN] :
                     s.has5M => s.dumps # <<>>}
    /\ result = [by |-> "none"]
    /\ IdleLoad /\ IdleCodec /\ IdleDiff /\ IdleImage /\ IdleRun /\ IdleShape /\ IdleAmp /\ IdleRegion /\ IdleEmu

NextRunner ==
    \/ RunGpuTest
    \/ Run16bppTest

SpecRunner == InitRunner /\ [][NextRunner]_vars

\* the dumps of the test that produced a comparison result
Compared == {i \in 1 .. Len(suite.dumps) : suite.dumps[i].ok}

\* C21: run_gpu_tests compares each test's dumps against that test's own
\* reference: the reported MATCH percentage is 100 minus the percentage of
\* pixels in which the chosen dump differs from the reference of the test's
\* own directory.
OwnReference ==
    (result.by = "run_gpu_tests" /\ result.printed = "RESULT") =>
        result.match =
          <<1000 - format_1f(suite.dumps[result.from[1]].diff[suite.test],
                             VRAM_W * VRAM_H)>>

\* C22: run_16bpp_tests reports a pixel-perfect result: a test is tagged
\* 'PASS 100%' and counted as passed if and only if its best dump has zero
\* differing pixels over the 320x224 crop; a dump with diff_count >= 1 is
\* reported with a match below 100.
PixelPerfectPass ==
    (result.by = "run_16bpp_tests" /\ result.from # <<>>) =>
        LET diff_count == suite.dumps[result.from[1]].diff[suite.test] IN
        /\ (result.summary = "PASS 100%") <=> (diff_count = 0)
        /\ (result.passed = 1) <=> (diff_count = 0)
        /\ (diff_count >= 1) => (result.match[1] < 10000)

\* what the comparison of dump i yields as its amount of difference: the
\* percentage printed by compare_vram.py, the diff_count returned by compare
DiffOf(i) ==
    IF result.by = "run_gpu_tests"
    THEN compare_vram_stdout(suite.dumps[i], suite.test)[1]
    ELSE suite.dumps[i].diff[suite.test]

\* the runner reached its loop over the dumps
LoopReached ==
    \/ result.by = "run_gpu_tests" /\ suite.has5M
    \/ result.by = "run_16bpp_tests" /\ suite.dumps # <<>> /\ suite.ref_shape_ok

\* C26: after all dumps of a test have been compared, the reported result
\* comes from a dump whose diff is minimal among the dumps that produced a
\* comparison result, the first in sorted filename order on ties; and a
\* numeric result is recorded whenever at least one dump produced a
\* comparison result, whatever its diff percentage.
BestDumpReported ==
    /\ (result.by # "none" /\ result.from # <<>>) =>
          /\ result.from[1] \in Compared
          /\ \A i \in Compared : DiffOf(result.from[1]) <= DiffOf(i)
          /\ \A i \in Compared :
                (DiffOf(i) = DiffOf(result.from[1])) => (result.from[1] <= i)
    /\ (LoopReached /\ Compared # {}) => (result.match # <<>>)

(***************************************************************************)
(* SpecEmu: the loop of a test runner over its tests, interleaved with the *)
(* emulator instances it launches.  Nothing in the loop waits for an       *)
(* instance: pkill sends a signal and returns, the sleeps pass time.  An   *)
(* instance writes vram_*.bin files while it is alive, also between the    *)
(* signal and its death.  A file is recorded with the instance that wrote  *)
(* it last.                                                                *)
(***************************************************************************)
\* number of tests the loop runs
NTests == 2

DumpNames == {"vram_5000000.bin", "vram_10000000.bin"}

\* run_gpu_tests.py, lines 35-62: the steps of one iteration
gpu_steps == <<"pkill", "remove", "Popen", "sleep", "pkill", "sleep", "glob">>

\* run_16bpp_tests.main, lines 106-130: the steps of one iteration
bpp16_steps == <<"remove", "pkill", "sleep", "Popen", "sleep", "pkill", "sleep", "glob">>

Steps == IF script.by = "run_gpu_tests" THEN gpu_steps ELSE bpp16_steps

\* the step the runner is about to take; "done" after the last test
AtStep == IF script.test > NTests THEN "done" ELSE Steps[script.pc]

Advance == [script EXCEPT !.pc = script.pc + 1]

\* subprocess.run(['pkill', '-f', 'PCSX2']): every running instance is
\* signalled; pkill returns without waiting for any of them
Pkill ==
    /\ AtStep = "pkill"
    /\ emu' = [emu EXCEPT !.inst = [e \in 1 .. NTests |->
                  IF emu.inst[e] = "running" THEN "signalled" ELSE emu.inst[e]]]
    /\ script' = Advance
    /\ UNCHANGED notEmuVars

\* for f in glob.glob('vram_*.bin'): os.remove(f)
Remove ==
    /\ AtStep = "remove"
    /\ emu' = [emu EXCEPT !.files = <<>>]
    /\ script' = Advance
    /\ UNCHANGED notEmuVars

\* subprocess.Popen(['bash', '-lc', cmd]): the instance of the current test
Popen ==
    /\ AtStep = "Popen"
    /\ emu' = [emu EXCEPT !.inst[script.test] = "running"]
    /\ script' = Advance
    /\ UNCHANGED notEmuVars

\* time.sleep(...): time passes, nothing is waited for
Sleep ==
    /\ AtStep = "sleep"
    /\ script' = Advance
    /\ UNCHANGED <<emu, notEmuVars>>

\* dumps = sorted(glob.glob('vram_*.bin')), then the comparison of the dumps
\* found and the next iteration
Glob ==
    /\ AtStep = "glob"
    /\ script' = [script EXCEPT !.dumps = {<<n, emu.files[n]>> : n \in DOMAIN emu.files},
                                !.collected = script.test,
                                !.test = script.test + 1,
                                !.pc = 1]
    /\ UNCHANGED <<emu, notEmuVars>>

\* a live instance writes (or rewrites) a dump file
EmuWrite ==
    /\ \E e \in 1 .. NTests, n \in DumpNames :
          /\ emu.inst[e] \in {"running", "signalled"}
          /\ emu' = [emu EXCEPT !.files =
                        [m \in DOMAIN emu.files \cup {n} |->
                            IF m = n THEN e ELSE emu.files[m]]]
    /\ UNCHANGED <<script, notEmuVars>>

\* the signal takes effect
EmuDie ==
    /\ \E e \in 1 .. NTests :
          /\ emu.inst[e] = "signalled"
          /\ emu' = [emu EXCEPT !.inst[e] = "dead"]
    /\ UNCHANGED <<script, notEmuVars>>

InitEmu ==
    /\ script \in [by : {"run_gpu_tests", "run_16bpp_tests"}, test : {1}, pc : {1},
                   dumps : {{}}, collected : {0}]
    /\ emu = [inst |-> [e \in 1 .. NTests |-> "not started"], files |-> <<>>]
    /\ IdleLoad /\ IdleCodec /\ IdleDiff /\ IdleImage /\ IdleRun /\ IdleShape /\ IdleAmp /\ IdleRegion /\ IdleRunner

NextEmu ==
    \/ Pkill
    \/ Remove
    \/ Popen
    \/ Sleep
    \/ Glob
    \/ EmuWrite
    \/ EmuDie

SpecEmu == InitEmu /\ [][NextEmu]_vars

\* C27: in both runners every vram_*.bin dump collected for a test was
\* written by the emulator instance launched for that test; no dump of an
\* earlier test's instance is present when the dumps are collected.
OwnDumpsOnly ==
    \A d \in script.dumps : d[2] = script.collected

(***************************************************************************)
(* SpecSections: the per-section breakdown of tools/analyze_line.py.  The  *)
(* RenderLine reference / dump pair is a canvas as in SpecRegion, of the   *)
(* runner's 320 x 224 size; regions holds the counts the script prints.    *)
(***************************************************************************)
\* tools/analyze_line.py, lines 24-30 (and 47-53, 68-74): (y0, y1, name)
sections ==
    <<<<0, 30, "Single lines">>, <<30, 55, "Poly-lines">>,
      <<54, 115, "Triangle lines">>, <<115, 165, "Quad lines">>,
      <<163, 220, "Shaded lines">>>>

\* coordinates (x, y) of the individually given pixels: the first line's
\* start, and rows 54, 164 and 221
LineCoords == {<<33, 8>>, <<100, 54>>, <<10, 164>>, <<5, 221>>}

\* the pairs analyze_line.py puts in category cat: miss, extra, color
LineMask(cat) == {pr \in RegionPairs : cat \in analyze_line_cats(pr[1], pr[2])}

\* tools/analyze_line.py, lines 9-84: the totals and, per category, the
\* count of each section (a section with count 0 prints no line)
AnalyzeLineSections ==
    /\ regions.by = "none"
    /\ regions' =
         [by |-> "analyze_line",
          totals |-> [cat \in DiffCats |->
                        CountSlice(LineMask(cat), 0, canvas.size[1], 0, canvas.size[2])],
          counts |-> [cat \in DiffCats |->
                        [i \in 1 .. Len(sections) |->
                            CountSlice(LineMask(cat), 0, canvas.size[1],
                                       sections[i][1], sections[i][2])]]]
    /\ UNCHANGED <<canvas, notRegionVars>>

InitSections ==
    /\ \E D \in SUBSET LineCoords :
          canvas \in [size : {<<REF_W, REF_H>>}, special : [D -> RegionPairs],
                      bg : RegionBackgrounds]
    /\ regions = [by |-> "none"]
    /\ IdleLoad /\ IdleCodec /\ IdleDiff /\ IdleImage /\ IdleRun /\ IdleShape /\ IdleAmp /\ IdleRunner /\ IdleEmu

NextSections == AnalyzeLineSections

SpecSections == InitSections /\ [][NextSections]_vars

\* the sections whose y-range holds row y
SectionsOfRow(y) ==
    {i \in 1 .. Len(sections) : sections[i][1] <= y /\ y < sections[i][2]}

RECURSIVE SumTo(_, _)
SumTo(f, n) == IF n = 0 THEN 0 ELSE f[n] + SumTo(f, n - 1)

\* C30: the named y-ranges of analyze_line partition the 224 rows: every
\* MISS, EXTRA or COLOR pixel falls into exactly one section, and for each
\* category the per-section counts sum to the whole-image total.
SectionsPartitionRows ==
    (regions.by = "analyze_line") =>
        /\ \A c \in DOMAIN canvas.special :
              (\E cat \in DiffCats : canvas.special[c] \in LineMask(cat)) =>
                  Cardinality(SectionsOfRow(c[2])) = 1
        /\ \A cat \in DiffCats :
              SumTo(regions.counts[cat], Len(sections)) = regions.totals[cat]

====
